---------------------------- MODULE Spec2Model ----------------------------
(***************************************************************************)
(* A model of the imagecurry HTTP file-transfer endpoint.                  *)
(*                                                                         *)
(* The repository holds the same server in several builds:                 *)
(*   "c"   : main.c + handlers.c + utils.c + http_response.c               *)
(*           (single path "/", file name in ?name=, save and serve roots)  *)
(*   "cpp" : main.cpp + handlers.cpp + utils.cpp + http_response.cpp       *)
(*           (routed endpoints /upload and /retrieve)                      *)
(* and a.c, the single-file ancestor, whose filename policy differs.       *)
(*                                                                         *)
(* Strings are sequences of byte values (0..255), so that decoding,        *)
(* validation and substring searches are computed as the code does.        *)
(***************************************************************************)
EXTENDS Integers, Sequences, FiniteSets, TLC

(***************************************************************************)
(* Bytes and strings                                                       *)
(***************************************************************************)

\* Byte values of the characters the code names in literals.
Ord ==
    ("a" :> 97) @@ ("b" :> 98) @@ ("e" :> 101) @@ ("f" :> 102) @@ ("m" :> 109) @@
    ("n" :> 110) @@ ("p" :> 112) @@ ("t" :> 116) @@ ("w" :> 119) @@ ("x" :> 120) @@
    ("0" :> 48) @@ ("1" :> 49) @@ ("2" :> 50) @@ ("E" :> 69) @@ ("F" :> 70) @@
    ("." :> 46) @@ ("/" :> 47) @@ ("\\" :> 92) @@ ("_" :> 95) @@ ("-" :> 45) @@
    ("%" :> 37) @@ ("+" :> 43) @@ ("&" :> 38) @@ ("=" :> 61) @@ (" " :> 32) @@
    ("\"" :> 34) @@ ("\r" :> 13) @@ ("\n" :> 10) @@ ("NUL" :> 0) @@ ("i" :> 105) @@
    ("j" :> 106) @@ ("g" :> 103) @@ ("d" :> 100) @@ ("z" :> 122)

\* The byte string written with the characters of cs.
B(cs) == [i \in 1..Len(cs) |-> Ord[cs[i]]]

\* s followed by n filler bytes 'a'.
Pad(s, n) == s \o [i \in 1..n |-> Ord["a"]]

\* <ctype.h> isalnum in the "C" locale (no build calls setlocale).
isalnum(c) == (c \in 48..57) \/ (c \in 65..90) \/ (c \in 97..122)

\* <ctype.h> isxdigit.
isxdigit(c) == (c \in 48..57) \/ (c \in 65..70) \/ (c \in 97..102)

\* strstr / std::string::find: the least index where needle occurs in hay at
\* or after from (1-based), 0 when it does not occur.
FindFrom(hay, needle, from) ==
    LET hits == {i \in from..(Len(hay) - Len(needle) + 1) :
                    \A j \in 1..Len(needle) : hay[i + j - 1] = needle[j]}
    IN IF hits = {} THEN 0 ELSE CHOOSE i \in hits : \A k \in hits : i <= k

Find(hay, needle) == FindFrom(hay, needle, 1)

\* strchr / std::string::find(char): whether byte c occurs in s.
HasByte(s, c) == \E i \in 1..Len(s) : s[i] = c

\* A C string ends at its first NUL byte: what strlen, strstr and a %s see of
\* a buffer that holds buf.
CStr(buf) ==
    LET z == {i \in 1..Len(buf) : buf[i] = 0}
    IN IF z = {} THEN buf
       ELSE SubSeq(buf, 1, (CHOOSE i \in z : \A k \in z : i <= k) - 1)

(***************************************************************************)
(* utils.c / utils.cpp / a.c : pure helpers                                *)
(***************************************************************************)

MAX_FILENAME_LEN == 255

\* An allow-list that lets every printable character through.
AllowedCharMutant(c) == c \in 33..126

\* The character allow-list of utils.c and utils.cpp.
AllowedChar(c) == isalnum(c) \/ c = Ord["."] \/ c = Ord["_"] \/ c = Ord["-"]

\* A validator that checks the length and nothing else.
valid_filename_mutant(name) ==
    /\ Len(name) > 0
    /\ Len(name) <= MAX_FILENAME_LEN

\* The checks every validator makes before its character loop.
valid_prefix(name) ==
    /\ Len(name) > 0
    /\ Len(name) <= MAX_FILENAME_LEN
    /\ name[1] \notin {Ord["."], Ord["/"], Ord["\\"]}
    /\ Find(name, B(<<".", ".">>)) = 0
    /\ ~HasByte(name, Ord["/"])
    /\ ~HasByte(name, Ord["\\"])

\* valid_filename of utils.c and utils.cpp: any number of dots.
valid_filename(name) ==
    /\ valid_prefix(name)
    /\ \A i \in 1..Len(name) : AllowedChar(name[i])

\* A single-dot validator without the test of the first character.
valid_filename_a_mutant(name) ==
    /\ Len(name) > 0
    /\ Len(name) <= MAX_FILENAME_LEN
    /\ Find(name, B(<<".", ".">>)) = 0
    /\ \A i \in 1..Len(name) :
          \/ name[i] = Ord["."] /\ Cardinality({j \in 1..i : name[j] = Ord["."]}) <= 1
          \/ isalnum(name[i]) \/ name[i] = Ord["_"] \/ name[i] = Ord["-"]

\* valid_filename of a.c: at most one dot.
valid_filename_a(name) ==
    /\ valid_prefix(name)
    /\ \A i \in 1..Len(name) :
          \/ name[i] = Ord["."] /\ Cardinality({j \in 1..i : name[j] = Ord["."]}) <= 1
          \/ isalnum(name[i]) \/ name[i] = Ord["_"] \/ name[i] = Ord["-"]

\* The digit value url_decode gives a hex digit.
hex_to_int(c) ==
    LET u == IF c \in 97..122 THEN c - 32 ELSE c
    IN IF u >= 65 THEN u - 65 + 10 ELSE u - 48

\* The test url_decode makes at position i: a '%' followed by two hex
\* digits inside the string.
EscapeAt(src, i) ==
    /\ src[i] = Ord["%"]
    /\ i + 2 <= Len(src)
    /\ isxdigit(src[i + 1])
    /\ isxdigit(src[i + 2])

\* url_decode (utils.cpp 14-41; utils.c 10-30 writes the same bytes): "%XX"
\* with two hex digits becomes the byte, '+' a space, anything else itself.
\* The loop skips the two digits of an escape, which are never a '%': it
\* stands on every position but those, and writes one byte at each.
url_decode(src) ==
    LET esc  == {i \in 1..Len(src) : EscapeAt(src, i)}
        kept == {i \in 1..Len(src) : (i - 1) \notin esc /\ (i - 2) \notin esc}
        at(k) == CHOOSE p \in kept : Cardinality({q \in kept : q <= p}) = k
        byte(p) == IF p \in esc
                      THEN ((hex_to_int(src[p + 1]) * 16) + hex_to_int(src[p + 2])) % 256
                      ELSE IF src[p] = Ord["+"] THEN Ord[" "] ELSE src[p]
    IN  [k \in 1..Cardinality(kept) |-> byte(at(k))]

\* The end of the encoded value: the first of " &\r\n" at or after start, or
\* one past the end of the query.
ValueEnd(query, start) ==
    LET stops == {i \in start..Len(query) :
                     query[i] \in {Ord[" "], Ord["&"], Ord["\r"], Ord["\n"]}}
    IN IF stops = {} THEN Len(query) + 1
       ELSE CHOOSE i \in stops : \A k \in stops : i <= k

\* get_query_param of utils.cpp: [ok, value].
get_query_param(query, key) ==
    LET search == key \o <<Ord["="]>>
        pos    == Find(query, search)
        start  == pos + Len(search)
        encoded == SubSeq(query, start, ValueEnd(query, start) - 1)
    IN IF pos = 0 THEN [ok |-> FALSE, value |-> <<>>]
       ELSE IF encoded = <<>> THEN [ok |-> FALSE, value |-> <<>>]
       ELSE [ok |-> TRUE, value |-> url_decode(encoded)]

\* get_query_param of utils.c and a.c: the value is refused when it does not
\* fit value_size, and the caller reads the decoded bytes as a C string.
get_query_param_c(query, key, value_size) ==
    LET search == key \o <<Ord["="]>>
        pos    == Find(query, search)
        start  == pos + Len(search)
        len    == ValueEnd(query, start) - start
        encoded == SubSeq(query, start, start + len - 1)
    IN IF pos = 0 THEN [ok |-> FALSE, value |-> <<>>]
       ELSE IF len = 0 \/ len >= value_size THEN [ok |-> FALSE, value |-> <<>>]
       ELSE [ok |-> TRUE, value |-> CStr(url_decode(encoded))]

\* Decimal and lower-case hexadecimal digits of a natural number.
RECURSIVE Digits(_, _)
Digits(n, base) ==
    LET d == n % base
        c == IF d < 10 THEN 48 + d ELSE 97 + d - 10
    IN IF n < base THEN <<c>> ELSE Digits(n \div base, base) \o <<c>>

\* An ETag that runs the two numbers together, with nothing between them.
generate_etag_mutant(mtime, size) ==
    <<Ord["\""]>> \o Digits(mtime, 16) \o Digits(size, 16) \o <<Ord["\""]>>

\* generate_etag: "\"%lx-%lx\"" of (mtime, size) in the C builds, the same
\* two numbers in decimal in utils.cpp.
generate_etag_c(mtime, size) ==
    <<Ord["\""]>> \o Digits(mtime, 16) \o <<Ord["-"]>> \o Digits(size, 16) \o <<Ord["\""]>>

generate_etag_cpp(mtime, size) ==
    <<Ord["\""]>> \o Digits(mtime, 10) \o <<Ord["-"]>> \o Digits(size, 10) \o <<Ord["\""]>>

(***************************************************************************)
(* Numbers read from text: atol (main.c) and std::stoul (main.cpp)         *)
(***************************************************************************)

MAX_REQUEST_SIZE == 128 * 1024 * 1024
MAX_FILE_SIZE == 128 * 1024 * 1024
BUFFER_SIZE == 8192

\* Lengths are 64-bit in the code and the code only ever compares a declared
\* length with MAX_REQUEST_SIZE, so every length of 2^30 or more is
\* represented by 2^30.
HugeLen == 1024 * 1024 * 1024

isspace(c) == c \in {32, 9, 10, 11, 12, 13}
isdigit(c) == c \in 48..57

\* What strtol and strtoul read: white space, an optional sign, digits.
NumText(text) ==
    LET ns    == {i \in 1..Len(text) : ~isspace(text[i])}
        first == IF ns = {} THEN Len(text) + 1
                 ELSE CHOOSE i \in ns : \A k \in ns : i <= k
        signed == first <= Len(text) /\ text[first] \in {Ord["-"], Ord["+"]}
        d0    == IF signed THEN first + 1 ELSE first
        nd    == {i \in d0..Len(text) : ~isdigit(text[i])}
        dend  == IF nd = {} THEN Len(text) + 1
                 ELSE CHOOSE i \in nd : \A k \in nd : i <= k
    IN [neg |-> signed /\ text[first] = Ord["-"],
        digits |-> SubSeq(text, d0, dend - 1)]

\* digits without its leading zeros.
RECURSIVE Significant(_)
Significant(digits) ==
    IF digits # <<>> /\ digits[1] = Ord["0"] THEN Significant(Tail(digits))
    ELSE digits

RECURSIVE DigitsValue(_)
DigitsValue(digits) ==
    IF digits = <<>> THEN 0
    ELSE 10 * DigitsValue(SubSeq(digits, 1, Len(digits) - 1))
            + (digits[Len(digits)] - 48)

\* The magnitude of a digit string, represented as said at HugeLen.
Magnitude(digits) ==
    LET sig == Significant(digits)
    IN IF Len(sig) > 9 THEN HugeLen
       ELSE IF DigitsValue(sig) > HugeLen THEN HugeLen ELSE DigitsValue(sig)

\* Whether a digit string exceeds ULONG_MAX = 18446744073709551615.
ExceedsUlong(digits) ==
    LET sig == Significant(digits)
        max == [i \in 1..20 |->
                   48 + <<1,8,4,4,6,7,4,4,0,7,3,7,0,9,5,5,1,6,1,5>>[i]]
    IN \/ Len(sig) > 20
       \/ /\ Len(sig) = 20
          /\ \E i \in 1..20 : sig[i] > max[i] /\ \A j \in 1..(i - 1) : sig[j] = max[j]

\* (size_t)atol(text) with glibc, where atol is strtol: no digits give 0, a
\* value out of range saturates, a negative value wraps to a huge size_t.
atol_size(text) ==
    LET t == NumText(text)
        m == Magnitude(t.digits)
    IN IF t.neg /\ m > 0 THEN HugeLen ELSE m

\* std::stoul(text): throws std::invalid_argument when there are no digits
\* and std::out_of_range above ULONG_MAX; strtoul negates a negative value.
stoul(text) ==
    LET t == NumText(text)
        m == Magnitude(t.digits)
    IN IF t.digits = <<>> \/ ExceedsUlong(t.digits)
       THEN [throws |-> TRUE, val |-> 0]
       ELSE [throws |-> FALSE, val |-> IF t.neg /\ m > 0 THEN HugeLen ELSE m]

(***************************************************************************)
(* format_http_date                                                        *)
(***************************************************************************)

\* n as exactly two decimal digits.
TwoDigits(n) == <<48 + ((n \div 10) % 10), 48 + (n % 10)>>

\* strftime("%a, %d %b %Y %H:%M:%S GMT") of gmtime(t).  The time of day is
\* computed as the code does; the calendar date is written as the number of
\* the day since the epoch (the date is a function of that number alone).
format_http_date(t) ==
    Digits(t \div 86400, 10) \o <<Ord[" "]>>
        \o TwoDigits((t % 86400) \div 3600) \o <<58>>
        \o TwoDigits((t % 3600) \div 60) \o <<58>>
        \o TwoDigits(t % 60) \o <<Ord[" "], 71, 77, 84>>

(***************************************************************************)
(* The file system: a function from paths to files                         *)
(***************************************************************************)

SAVE_DIR == "./save"
SERVE_DIR == "./serve"

\* A build_save_path that resolves to the serve root.
build_save_path_mutant(filename) == [dir |-> "./serve", name |-> filename]

build_save_path(filename) == [dir |-> SAVE_DIR, name |-> filename]

build_serve_path(filename) == [dir |-> SERVE_DIR, name |-> filename]

\* "<path>.tmp" (handle_post).
temppath(path) == [dir |-> path.dir, name |-> path.name \o B(<<".", "t", "m", "p">>)]

\* A file: its bytes are the first len bytes of the upload body `data`
\* (0: bytes that no upload of the model wrote), and its modification time.
File(data, len, mtime) == [data |-> data, len |-> len, mtime |-> mtime]

Exists(f, p) == p \in DOMAIN f
Put(f, p, file) == [q \in DOMAIN f \cup {p} |-> IF q = p THEN file ELSE f[q]]
\* An unlink that removes nothing.
Del_mutant(f, p) == f

Del(f, p) == [q \in DOMAIN f \ {p} |-> f[q]]

\* What a reader finds at p: the bytes, or nothing.
NoContent == [data |-> 0, len |-> -1]
Content(f, p) == IF Exists(f, p) THEN [data |-> f[p].data, len |-> f[p].len] ELSE NoContent

\* rename(2): the file at `from` replaces whatever is at `to`.
Rename(f, from, to) == IF from = to THEN f ELSE Del(Put(f, to, f[from]), from)

(***************************************************************************)
(* Requests                                                                *)
(***************************************************************************)

Absent == [has |-> FALSE, text |-> <<>>]
Some(s) == [has |-> TRUE, text |-> s]

\* Bounds of the inputs.
SmallHead == 64
MaxBody == 4
MaxConns == 2
MaxClock == 1

NameKey == B(<<"n", "a", "m", "e">>)

\* Query strings: "name=a.b", "name=ab", "name=%2e%2e%2fx" (decodes to
\* "../x"), "name=a%00%2f" (a NUL inside the decoded bytes), "x=1".
Queries ==
    { Some(NameKey \o B(<<"=", "a", ".", "b">>)),
      Some(NameKey \o B(<<"=", "a", "b">>)),
      Some(NameKey \o B(<<"=", "%", "2", "e", "%", "2", "e", "%", "2", "f", "x">>)),
      Some(NameKey \o B(<<"=", "a", "%", "0", "0", "%", "2", "f">>)),
      Some(B(<<"x", "=", "1">>)),
      Absent }

\* The text that follows "Content-Length:" in the header block.
ClTexts ==
    { <<Ord[" "]>> \o Digits(n, 10) :
          n \in {0, 2, MaxBody, MAX_REQUEST_SIZE, MAX_REQUEST_SIZE + 1} }
    \cup { B(<<" ", "x">>), B(<<" ", "-", "1">>), <<>>,
           <<Ord[" "]>> \o [i \in 1..21 |-> 57] }

\* The text from "If-None-Match:" to the end of the request.
InmTexts ==
    { <<Ord[" "]>> \o generate_etag_c(m, 3) : m \in {0, 1} }

\* A request as the client sends it.  head_len is the number of bytes up to
\* and including the first CR LF CR LF (0: the stream holds none); total is
\* the number of bytes the client sends before it goes silent.
BaseReq ==
    [method |-> "POST", path_only |-> "/", query |-> Some(NameKey \o B(<<"=", "a", ".", "b">>)),
     line_ok |-> TRUE, version |-> "HTTP/1.1",
     head_len |-> SmallHead, total |-> SmallHead,
     cl |-> Absent, cl_in_body |-> FALSE, inm |-> Absent, ims |-> Absent, data |-> 1,
     ctype |-> "image/jpeg"]

\* Every method on the paths that take a name, with every query; the
\* other methods and paths with one query.
RoutingReqs ==
    { [BaseReq EXCEPT !.method = m, !.path_only = p, !.query = q] :
          m \in {"GET", "HEAD", "POST"}, p \in {"/", "/retrieve"}, q \in Queries }
    \cup { [BaseReq EXCEPT !.method = m, !.path_only = p] :
              m \in {"GET", "POST", "OPTIONS", "PUT"}, p \in {"/", "/upload", "/x"} }
    \cup { [BaseReq EXCEPT !.version = "HTTP/2.0"], [BaseReq EXCEPT !.line_ok = FALSE] }

\* Uploads: every Content-Length text against a client that sends 0, 2 or
\* MaxBody bytes after the header block; a second body; a header block
\* that fills the buffer; streams with no terminator in the first
\* BUFFER_SIZE - 1 bytes.
FramingReqs ==
    { [BaseReq EXCEPT !.path_only = p, !.total = SmallHead + extra, !.cl = Some(c)] :
          p \in {"/", "/upload"}, extra \in {0, 2, MaxBody}, c \in ClTexts }
    \cup { [BaseReq EXCEPT !.path_only = p, !.head_len = h, !.total = h + 2,
                           !.cl = Some(<<Ord[" "]>> \o Digits(2, 10)), !.data = 2] :
              p \in {"/", "/upload"}, h \in {SmallHead, BUFFER_SIZE - 1} }
    \cup { [BaseReq EXCEPT !.head_len = 0, !.total = t] :
              t \in {SmallHead, BUFFER_SIZE - 1, BUFFER_SIZE + SmallHead} }
    \cup { [BaseReq EXCEPT !.head_len = BUFFER_SIZE, !.total = BUFFER_SIZE] }

\* An If-None-Match whose value is "z", followed by another header line
\* that holds the ETag of the file (0, 3).
InmThenOther ==
    B(<<" ", "\"", "z", "\"", "\r", "\n">>) \o <<88, 58, 32>> \o generate_etag_c(0, 3)

\* Conditional requests: If-None-Match with each ETag; the ETag in a later
\* header only; If-Modified-Since with the date of mtime 0.
CacheReqs ==
    { [BaseReq EXCEPT !.method = m, !.path_only = p, !.inm = Some(i)] :
          m \in {"GET", "HEAD"}, p \in {"/", "/retrieve"}, i \in InmTexts }
    \cup { [BaseReq EXCEPT !.method = "GET", !.path_only = p, !.inm = Some(InmThenOther)] :
              p \in {"/", "/retrieve"} }
    \cup { [BaseReq EXCEPT !.method = "GET", !.path_only = p,
                           !.ims = Some(<<Ord[" "]>> \o format_http_date(0))] :
              p \in {"/", "/retrieve"} }

\* OPTIONS on a path no route knows, with and without a query, declaring
\* a body of two bytes or one of no length at all, the two bytes sent.
OptionsReqs ==
    { [BaseReq EXCEPT !.method = "OPTIONS", !.path_only = "/x", !.query = q,
                      !.total = SmallHead + 2, !.cl = Some(c)] :
          q \in { Absent, Some(NameKey \o B(<<"=", "%", "2", "e", "%", "2", "e", "%", "2", "f", "x">>)) },
          c \in { <<Ord[" "]>> \o Digits(2, 10), B(<<" ", "x">>) } }

\* The length at which detect_extension_from_magic starts to look at a
\* body.
MagicLen == 8

\* Routed uploads of MagicLen bytes: a body that begins with the JPEG
\* signature (data 3) sent as image/png and with no Content-Type (""),
\* and a body with no signature (data 1) sent as text/plain.
UploadReqs ==
    { [BaseReq EXCEPT !.path_only = "/upload", !.total = SmallHead + MagicLen,
                      !.cl = Some(<<Ord[" "]>> \o Digits(MagicLen, 10)),
                      !.data = u.data, !.ctype = u.ctype] :
          u \in { [data |-> 3, ctype |-> "image/png"], [data |-> 3, ctype |-> ""],
                  [data |-> 1, ctype |-> "text/plain"] } }

\* The length of the text "Content-Length: 134217729".
ClLineLen == 25

\* Uploads with no Content-Length header whose body is the text
\* "Content-Length: 134217729": the first occurrence of "Content-Length:"
\* in the stream comes after the header terminator.
ClInBodyReqs ==
    { [BaseReq EXCEPT !.path_only = p, !.total = SmallHead + ClLineLen,
                      !.cl = Some(<<Ord[" "]>> \o Digits(MAX_REQUEST_SIZE + 1, 10)),
                      !.cl_in_body = TRUE] :
          p \in {"/", "/upload"} }

\* A method no build implements, on the paths the builds accept, with no
\* query and with a name the validator rejects.
MethodReqs ==
    { [BaseReq EXCEPT !.method = "PUT", !.path_only = p, !.query = q] :
          p \in {"/", "/upload"},
          q \in { Absent, Some(NameKey \o B(<<"=", "%", "2", "e", "%", "2", "e", "%", "2", "f", "x">>)) } }

Requests ==
    RoutingReqs \cup FramingReqs \cup CacheReqs \cup OptionsReqs \cup UploadReqs
        \cup ClInBodyReqs \cup MethodReqs

(***************************************************************************)
(* State                                                                   *)
(***************************************************************************)

VARIABLES
    variant,         \* the build that runs: "c" or "cpp"
    server_running,  \* main: the flag the signal handler clears
    mainpc,          \* main: "loop", "accept", "request", "exited", "aborted"
    nconn,           \* connections accepted so far
    clock,           \* the time of day, in seconds
    req,             \* the request the connected client sends
    pc,              \* process_request: where the handling of req stands
    received,        \* process_request: bytes in the header buffer
    content_length,  \* process_request: the declared body length
    body_len,        \* process_request: body bytes collected
    alloc,           \* process_request: bytes the body allocation holds room for
    filename,        \* the resource name of the request, once resolved
    resp,            \* the responses sent on the connection, in order
    fs,              \* the file system
    jobs,            \* post-processor children forked
    children,        \* the processes those forks created, by connection
    open_fds,        \* main: the accepted connections whose descriptor the server holds open
    built,           \* history: the paths built for this request, each with the name it was built from
    fs0,             \* history: the file system when the connection was accepted
    dest_before,     \* history: what the destination path held when the upload began
    uploaded,        \* history: per name, the body of the last upload answered 200
    fn               \* the harness that applies the pure helpers

vars == <<variant, server_running, mainpc, nconn, clock, req, pc, received,
          content_length, body_len, alloc, filename, resp, fs, jobs, children, open_fds,
          built, fs0, dest_before, uploaded, fn>>

connvars == <<req, pc, received, content_length, body_len, alloc, filename, resp>>
histvars == <<built, fs0, dest_before, uploaded>>

NoReq == [BaseReq EXCEPT !.method = "NONE"]
NoFn == [op |-> "none", impl |-> "none", arg |-> <<>>, done |-> FALSE, res |-> FALSE]
EmptyFs == [p \in {} |-> File(0, 0, 0)]

\* The serve root holds what the post-processor or the operator put there:
\* nothing, or a file a.b of three bytes.
InitFs == { EmptyFs, Put(EmptyFs, build_serve_path(B(<<"a", ".", "b">>)), File(0, 3, 0)) }

Init ==
    /\ variant \in {"c", "cpp"}
    /\ server_running = 1
    /\ mainpc = "loop"
    /\ nconn = 0
    /\ clock = 0
    /\ req = NoReq
    /\ pc = "idle"
    /\ received = 0
    /\ content_length = 0
    /\ body_len = 0
    /\ alloc = 0
    /\ filename = Absent
    /\ resp = <<>>
    /\ fs \in InitFs
    /\ jobs = {}
    /\ children = {}
    /\ open_fds = {}
    /\ built = {}
    /\ fs0 = fs
    /\ dest_before = NoContent
    /\ uploaded = EmptyFs
    /\ fn = NoFn

(***************************************************************************)
(* http_response.c / http_response.cpp                                     *)
(***************************************************************************)

NoBody == [kind |-> "none", data |-> 0, len |-> 0, name |-> <<>>]
HtmlBody == [kind |-> "html", data |-> 0, len |-> 0, name |-> <<>>]
FileBody(c) == [kind |-> "file", data |-> c.data, len |-> c.len, name |-> <<>>]
JsonBody(name) == [kind |-> "json", data |-> 0, len |-> 0, name |-> name]

\* CORS_HEADERS without Access-Control-Max-Age.
CORS_HEADERS_mutant(impl) ==
    { "Access-Control-Allow-Origin: *", "Access-Control-Allow-Methods",
      "Access-Control-Allow-Headers", "Access-Control-Expose-Headers", "Vary: Origin" }

\* The CORS header lines a build puts in a response: CORS_HEADERS of
\* http_response.c / .cpp and handlers.cpp, the same lines written out in
\* the handlers of handlers.c, and CORS_HEADERS of a.c, which has neither
\* Access-Control-Expose-Headers nor Vary.
CORS_HEADERS(impl) ==
    { "Access-Control-Allow-Origin: *", "Access-Control-Allow-Methods",
      "Access-Control-Allow-Headers", "Access-Control-Max-Age" }
    \cup (IF impl = "a.c" THEN {} ELSE {"Access-Control-Expose-Headers", "Vary: Origin"})

\* The cache validators a response carries: ETag and Last-Modified.
NoMeta == [etag |-> <<>>, last_modified |-> <<>>]
Meta(etag, last_modified) == [etag |-> etag, last_modified |-> last_modified]

CacheHeaders == {"ETag", "Last-Modified", "Cache-Control"}

\* send_response: status line, CORS_HEADERS, Content-Type, Content-Length,
\* the extra header lines, "Connection: close", and the body.
send_response(impl, code, body, extra, meta) ==
    [status |-> code, body |-> body,
     headers |-> CORS_HEADERS(impl) \cup {"Content-Type", "Content-Length", "Connection: close"}
                    \cup extra,
     meta |-> meta]

\* send_error: one response with an HTML body.
send_error(code) == send_response(variant, code, HtmlBody, {}, NoMeta)

\* send_not_modified: 304 with the validators, no body.
send_not_modified(etag, last_modified) ==
    send_response(variant, 304, NoBody, CacheHeaders, Meta(etag, last_modified))

\* handle_options: 204, the CORS lines and "Connection: close", no body.
handle_options(impl) ==
    [status |-> 204, body |-> NoBody,
     headers |-> CORS_HEADERS(impl) \cup {"Connection: close"},
     meta |-> NoMeta]

\* The 200 header block of handle_get and handle_head, written by the
\* handler itself, followed (GET) by the file.
file_response(impl, body, etag, last_modified) ==
    [status |-> 200, body |-> body,
     headers |-> CORS_HEADERS(impl) \cup {"Content-Type", "Content-Length", "Connection: close"}
                    \cup CacheHeaders,
     meta |-> Meta(etag, last_modified)]

(***************************************************************************)
(* main: the accept loop and the signal handler                            *)
(***************************************************************************)

\* while (server_running): leave the loop and return 0 once the flag is 0.
MainLoop ==
    /\ mainpc = "loop"
    /\ mainpc' = IF server_running = 1 THEN "accept" ELSE "exited"
    /\ UNCHANGED <<variant, open_fds, server_running, nconn, clock, fs, jobs, children, fn>>
    /\ UNCHANGED connvars
    /\ UNCHANGED histvars

\* accept() returns a connection; process_request starts on it.
accept(clients) ==
    /\ mainpc = "accept"
    /\ nconn < MaxConns
    /\ \E r \in clients, dt \in {0, 1} :
          /\ clock + dt <= MaxClock
          /\ clock' = clock + dt
          /\ req' = r
    /\ mainpc' = "request"
    /\ pc' = "recv_head"
    /\ nconn' = nconn + 1
    /\ received' = 0
    /\ content_length' = 0
    /\ body_len' = 0
    /\ alloc' = 0
    /\ filename' = Absent
    /\ resp' = <<>>
    /\ fs0' = fs
    /\ dest_before' = NoContent
    /\ open_fds' = open_fds \cup {nconn + 1}
    /\ UNCHANGED <<variant, server_running, fs, jobs, children, built, uploaded, fn>>

Accept == accept(Requests)

\* accept() fails with an error: the loop continues.
AcceptError ==
    /\ mainpc = "accept"
    /\ mainpc' = "loop"
    /\ UNCHANGED <<variant, open_fds, server_running, nconn, clock, fs, jobs, children, fn>>
    /\ UNCHANGED connvars
    /\ UNCHANGED histvars

\* signal_handler: server_running = 0.
signal_handler == 0

\* SIGINT or SIGTERM is delivered.  signal() of the C++ build (glibc, BSD
\* semantics) installs the handler with SA_RESTART, so a blocked accept()
\* is resumed; the C build gets either semantics from its feature-test
\* macros, and a signal that arrives before accept() blocks interrupts
\* nothing.
Signal ==
    /\ mainpc \notin {"exited", "aborted"}
    /\ server_running = 1
    /\ server_running' = signal_handler
    /\ \E eintr \in (IF variant = "cpp" THEN {FALSE} ELSE BOOLEAN) :
          mainpc' = IF mainpc = "accept" /\ eintr THEN "loop" ELSE mainpc
    /\ UNCHANGED <<variant, open_fds, nconn, clock, fs, jobs, children, fn>>
    /\ UNCHANGED connvars
    /\ UNCHANGED histvars

(***************************************************************************)
(* process_request: reading the header block                               *)
(***************************************************************************)

Min(a, b) == IF a < b THEN a ELSE b

\* Where the network may split the byte stream of request r: just before
\* the terminator is complete, right after it, one or two bytes into the
\* body, and at the end of what the client sends.
Cuts(r) == {r.head_len - 1, r.head_len, r.head_len + 1, r.head_len + 2, r.total}

\* The byte counts one recv() may return when the stream stands at
\* position pos and the call asks for at most room bytes.
RecvSizes(r, pos, room) ==
    LET avail == Min(room, r.total - pos)
    IN  { c - pos : c \in { d \in Cuts(r) : pos < d /\ d <= pos + avail } }
        \cup (IF avail > 0 THEN {avail} ELSE {})

\* A header loop that asks recv() for one byte more than the room left.
header_room_mutant(n) == BUFFER_SIZE - n

\* The size handed to recv() in the header loop when the buffer holds n
\* bytes: BUFFER_SIZE - received - 1.
header_room(n) == BUFFER_SIZE - n - 1

\* strstr(header_buf, "\r\n\r\n") after the buffer holds n bytes.
header_end_found(r, n) == r.head_len > 0 /\ r.head_len <= n

\* A recv() failure that is answered 400.
recv_failed_mutant(responses) == Append(responses, send_error(400))

\* if (n <= 0) { ...; return; }: what the connection has been sent when
\* process_request returns from a recv() that gave no bytes.
recv_failed(responses) == responses

\* The recv() of the header loop fails, times out or meets end of stream:
\* process_request returns without a response.
RecvHeadFail ==
    /\ mainpc = "request"
    /\ pc = "recv_head"
    /\ pc' = "done"
    /\ resp' = recv_failed(resp)
    /\ UNCHANGED <<variant, open_fds, server_running, mainpc, nconn, clock, req, received,
                   content_length, body_len, alloc, filename, fs, jobs, children, fn>>
    /\ UNCHANGED histvars

\* One pass of the header loop: recv() into the room left, then look for
\* the terminator; past the loop without one, 400.
RecvHead ==
    /\ mainpc = "request"
    /\ pc = "recv_head"
    /\ received < BUFFER_SIZE - 1
    /\ \E n \in RecvSizes(req, received, header_room(received)) :
          /\ received' = received + n
          /\ IF header_end_found(req, received + n)
                THEN pc' = "parse" /\ resp' = resp
                ELSE IF received + n < BUFFER_SIZE - 1
                        THEN pc' = "recv_head" /\ resp' = resp
                        ELSE pc' = "done" /\ resp' = Append(resp, send_error(400))
    /\ UNCHANGED <<variant, open_fds, server_running, mainpc, nconn, clock, req,
                   content_length, body_len, alloc, filename, fs, jobs, children, fn>>
    /\ UNCHANGED histvars

(***************************************************************************)
(* process_request: request line, routing and body framing                 *)
(***************************************************************************)

\* What one stretch of process_request decides.
Out(kind, status, name, len, bl, room) ==
    [kind |-> kind, status |-> status, name |-> name,
     content_length |-> len, body_len |-> bl, alloc |-> room]

Respond(code, name) == Out("respond", code, name, 0, 0, 0)

\* The body buffer is set up from the bytes that followed the terminator in
\* the header read: all of them are copied with no check against the
\* allocation of room bytes (len + 1 in C, whose last byte takes the NUL
\* written at body[body_len]; len in C++), so more than len of them write
\* past it (undefined: the process dies, or goes on with body_len above
\* len).
ReadBody(r, rcvd, len, room, name) ==
    LET part == rcvd - r.head_len
        bl == IF part > 0 THEN part ELSE 0
    IN  IF bl > len
           THEN { Out("abort", 0, name, len, bl, room),
                  Out("dispatch", 0, name, len, bl, room) }
           ELSE { Out(IF bl < len THEN "recv_body" ELSE "dispatch", 0, name, len, bl, room) }

\* sscanf of the request line and the version check.
request_line_ok(r) == r.line_ok /\ r.version \in {"HTTP/1.1", "HTTP/1.0"}

\* strstr(header_buf, "Content-Length:") over the NUL-terminated bytes
\* received so far, body bytes that came with the header block included:
\* the text that follows the first occurrence, if there is one.  An
\* occurrence in the body is in the buffer once the stream has arrived
\* whole.
content_len_str(r, rcvd) ==
    IF r.cl.has /\ (r.cl_in_body => rcvd >= r.total) THEN r.cl ELSE Absent

\* main.c: path, name parameter and validator first, then Content-Length
\* with atol(), the 413 limit, malloc and the body.
process_request_c(r, rcvd) ==
    IF ~request_line_ok(r) THEN {Respond(400, Absent)}
    ELSE IF r.method = "OPTIONS" THEN {Respond(204, Absent)}
    ELSE IF r.path_only # "/" THEN {Respond(400, Absent)}
    ELSE
      LET q == IF r.query.has
                  THEN get_query_param_c(r.query.text, NameKey, MAX_FILENAME_LEN + 1)
                  ELSE [ok |-> FALSE, value |-> <<>>]
          name == Some(q.value)
          len == IF content_len_str(r, rcvd).has THEN atol_size(r.cl.text) ELSE 0
      IN  IF ~q.ok THEN {Respond(400, Absent)}
          ELSE IF ~valid_filename(q.value) THEN {Respond(400, name)}
          ELSE IF len > MAX_REQUEST_SIZE THEN {Respond(413, name)}
          ELSE IF len = 0 THEN {Out("dispatch", 0, name, 0, 0, 0)}
          ELSE {Respond(500, name)} \cup ReadBody(r, rcvd, len, len + 1, name)

\* main.cpp: Content-Length with std::stoul() first (an exception nothing
\* catches ends the process), the 413 limit, body.resize() (std::bad_alloc
\* ends the process too) and the body; routing comes after, in dispatch.
process_request_cpp(r, rcvd) ==
    IF ~request_line_ok(r) THEN {Respond(400, Absent)}
    ELSE IF r.method = "OPTIONS" THEN {Respond(204, Absent)}
    ELSE
      LET cl == IF content_len_str(r, rcvd).has THEN stoul(r.cl.text)
                ELSE [throws |-> FALSE, val |-> 0]
      IN  IF cl.throws THEN {Out("abort", 0, Absent, 0, 0, 0)}
          ELSE IF cl.val > MAX_REQUEST_SIZE THEN {Respond(413, Absent)}
          ELSE IF cl.val = 0 THEN {Out("dispatch", 0, Absent, 0, 0, 0)}
          ELSE {Out("abort", 0, Absent, cl.val, 0, 0)} \cup ReadBody(r, rcvd, cl.val, cl.val, Absent)

\* From the complete header block to the first body recv(), the dispatch or
\* an early response.
ParseRequest ==
    /\ mainpc = "request"
    /\ pc = "parse"
    /\ \E o \in (IF variant = "c" THEN process_request_c(req, received)
                                  ELSE process_request_cpp(req, received)) :
          /\ filename' = o.name
          /\ content_length' = o.content_length
          /\ body_len' = o.body_len
          /\ alloc' = o.alloc
          /\ resp' = IF o.kind = "respond"
                        THEN Append(resp, IF o.status = 204
                                             THEN handle_options(variant)
                                             ELSE send_error(o.status))
                        ELSE resp
          /\ pc' = IF o.kind \in {"respond", "abort"} THEN "done" ELSE o.kind
          /\ mainpc' = IF o.kind = "abort" THEN "aborted" ELSE mainpc
    /\ UNCHANGED <<variant, open_fds, server_running, nconn, clock, req, received, fs, jobs, children, fn>>
    /\ UNCHANGED histvars

\* A recv() of the body loop fails, times out or meets end of stream: the
\* buffer is freed and process_request returns without a response.
RecvBodyFail ==
    /\ mainpc = "request"
    /\ pc = "recv_body"
    /\ pc' = "done"
    /\ resp' = recv_failed(resp)
    /\ UNCHANGED <<variant, open_fds, server_running, mainpc, nconn, clock, req, received,
                   content_length, body_len, alloc, filename, fs, jobs, children, fn>>
    /\ UNCHANGED histvars

\* One pass of the body loop: recv() of at most content_length - body_len
\* bytes.
RecvBody ==
    /\ mainpc = "request"
    /\ pc = "recv_body"
    /\ body_len < content_length
    /\ \E n \in RecvSizes(req, req.head_len + body_len, content_length - body_len) :
          /\ body_len' = body_len + n
          /\ pc' = IF body_len + n < content_length THEN "recv_body" ELSE "dispatch"
    /\ UNCHANGED <<variant, open_fds, server_running, mainpc, nconn, clock, req, received,
                   content_length, alloc, filename, resp, fs, jobs, children, fn>>
    /\ UNCHANGED histvars

(***************************************************************************)
(* handlers.c / handlers.cpp : retrieval                                   *)
(***************************************************************************)

generate_etag(v, st) ==
    IF v = "c" THEN generate_etag_c(st.mtime, st.len) ELSE generate_etag_cpp(st.mtime, st.len)

\* strstr(request, header) and then strstr(from there, token): whether the
\* request carries the header with the token somewhere after it.
header_contains(field, token) == field.has /\ Find(field.text, token) > 0

\* A handle_get that goes on after its 404 and answers once more.
handle_get_mutant(v, r, name, f) == {<<send_error(404), send_error(500)>>}

\* handle_get: the responses it may leave on the connection.  stat, the two
\* conditional checks, fopen, the 200 header and the file bytes; a send()
\* of the header that fails leaves nothing.  The file goes out in one
\* send per BUFFER_SIZE bytes read, whose result is only tested for an
\* error: of a file that fits the buffer the socket gets all the bytes, or
\* the leading ones when send takes fewer, or none when it fails.
handle_get(v, r, name, f) ==
    LET path == build_serve_path(name)
    IN  IF ~Exists(f, path) THEN {<<send_error(404)>>}
        ELSE
          LET etag == generate_etag(v, f[path])
              last_modified == format_http_date(f[path].mtime)
          IN  IF header_contains(r.inm, etag)
                 THEN {<<send_not_modified(etag, last_modified)>>}
              ELSE IF header_contains(r.ims, last_modified)
                 THEN {<<send_not_modified(etag, last_modified)>>}
              ELSE { <<send_error(500)>>, <<>> }
                   \cup { <<file_response(v, FileBody([data |-> f[path].data, len |-> k]),
                                          etag, last_modified)>> : k \in 0..f[path].len }

\* A handle_head that writes the 200 header block without calling stat.
handle_head_mutant(v, r, name, f) ==
    {<<file_response(v, NoBody, generate_etag(v, File(0, 0, 0)), format_http_date(0))>>}

\* handle_head: stat, then the 200 header block; the request's conditional
\* headers are not looked at (the C++ handler is not even handed the
\* request).
handle_head(v, r, name, f) ==
    LET path == build_serve_path(name)
    IN  IF ~Exists(f, path) THEN {<<send_error(404)>>}
        ELSE {<<file_response(v, NoBody, generate_etag(v, f[path]),
                              format_http_date(f[path].mtime))>>}

\* The retrieve operation main.cpp delegates to, carried out by the two
\* handlers of handlers.cpp.
handle_retrieve(r, name, f, is_head) ==
    IF is_head THEN handle_head("cpp", r, name, f) ELSE handle_get("cpp", r, name, f)

(***************************************************************************)
(* Naming of routed uploads                                                *)
(***************************************************************************)

\* generate_sha256_uuid: hexadecimal digits drawn from the clock and the
\* random device; two of its values stand for all.
Ids == { B(<<"e", "0">>), B(<<"f", "1">>) }

\* An inference from the Content-Type that knows no type.
detect_extension_mutant(content_type) == B(<<".", "b", "i", "n">>)

detect_extension_from_content_type(content_type) ==
    CASE content_type = "image/jpeg" -> B(<<".", "j", "p", "g">>)
      [] content_type = "image/png" -> B(<<".", "p", "n", "g">>)
      [] content_type = "image/gif" -> B(<<".", "g", "i", "f">>)
      [] content_type = "image/webp" -> B(<<".", "w", "e", "b", "p">>)
      [] content_type = "application/pdf" -> B(<<".", "p", "d", "f">>)
      [] content_type = "application/zip" -> B(<<".", "z", "i", "p">>)
      [] OTHER -> B(<<".", "b", "i", "n">>)

\* The first bytes of the body a client sends: upload 3 begins with the
\* JPEG signature FF D8 FF E0 "JFIF", the others are eight letters x.
BodyBytes(data) ==
    IF data = 3 THEN <<255, 216, 255, 224, 74, 70, 73, 70>> ELSE [i \in 1..MagicLen |-> 120]

\* The first n bytes of the body of r, as far as the model spells them out.
Body(r, n) == SubSeq(BodyBytes(r.data), 1, Min(n, MagicLen))

\* body.data()[i]: the byte at offset i, the terminating NUL at offset
\* size().
At(body, i) == IF i + 1 <= Len(body) THEN body[i + 1] ELSE 0

detect_extension_from_magic(body) ==
    IF Len(body) < 8 THEN B(<<".", "b", "i", "n">>)
    ELSE IF At(body, 0) = 255 /\ At(body, 1) = 216 THEN B(<<".", "j", "p", "g">>)
    ELSE IF At(body, 0) = 137 /\ At(body, 1) = 80 /\ At(body, 2) = 78 /\ At(body, 3) = 71
         THEN B(<<".", "p", "n", "g">>)
    ELSE IF /\ At(body, 0) = 82 /\ At(body, 1) = 73 /\ At(body, 2) = 70 /\ At(body, 3) = 70
            /\ At(body, 8) = 87 /\ At(body, 9) = 69 /\ At(body, 10) = 66 /\ At(body, 11) = 80
         THEN B(<<".", "w", "e", "b", "p">>)
    ELSE IF At(body, 0) = 71 /\ At(body, 1) = 73 /\ At(body, 2) = 70 THEN B(<<".", "g", "i", "f">>)
    ELSE IF At(body, 0) = 37 /\ At(body, 1) = 80 /\ At(body, 2) = 68 /\ At(body, 3) = 70
         THEN B(<<".", "p", "d", "f">>)
    ELSE IF At(body, 0) = 80 /\ At(body, 1) = 75 /\ At(body, 2) = 3 /\ At(body, 3) = 4
         THEN B(<<".", "z", "i", "p">>)
    ELSE B(<<".", "b", "i", "n">>)

\* The comparisons of detect_extension_from_magic, in the order of the
\* source: each test is a chain of data[i] == v joined by &&.
MagicTests ==
    << << <<0, 255>>, <<1, 216>> >>,
       << <<0, 137>>, <<1, 80>>, <<2, 78>>, <<3, 71>> >>,
       << <<0, 82>>, <<1, 73>>, <<2, 70>>, <<3, 70>>,
          <<8, 87>>, <<9, 69>>, <<10, 66>>, <<11, 80>> >>,
       << <<0, 71>>, <<1, 73>>, <<2, 70>> >>,
       << <<0, 37>>, <<1, 80>>, <<2, 68>>, <<3, 70>> >>,
       << <<0, 80>>, <<1, 75>>, <<2, 3>>, <<3, 4>> >> >>

\* Whether every comparison of a chain holds.
ChainHolds(body, chain) == \A j \in 1..Len(chain) : At(body, chain[j][1]) = chain[j][2]

\* The offsets a chain reads when && does not stop at a comparison that
\* fails.
ChainReads_mutant(body, chain) == { chain[j][1] : j \in 1..Len(chain) }

\* The offsets a chain reads: && evaluates its right operand only when
\* the left one holds, so the reads stop with the first comparison that
\* fails.
ChainReads(body, chain) ==
    { chain[j][1] : j \in { k \in 1..Len(chain) :
                               \A h \in 1..(k - 1) : At(body, chain[h][1]) = chain[h][2] } }

\* The offsets of data detect_extension_from_magic reads: none for a body
\* of fewer than 8 bytes, else those of the tests up to and including the
\* first that holds.
magic_reads(body) ==
    IF Len(body) < 8 THEN {}
    ELSE UNION { ChainReads(body, MagicTests[t]) :
                    t \in { u \in 1..Len(MagicTests) :
                               \A w \in 1..(u - 1) : ~ChainHolds(body, MagicTests[w]) } }

\* The Content-Type values detect_extension_from_content_type maps to an
\* extension of their own.
KnownTypes ==
    { "image/jpeg", "image/png", "image/gif", "image/webp", "application/pdf",
      "application/zip", "application/octet-stream" }

\* The names the upload operation of main.cpp may store a body under:
\* <generated id><extension>, the extension being that of the Content-Type
\* when the request names a known one and that of the body's signature
\* otherwise.
handle_upload_names(r, body) ==
    LET ext == IF r.ctype \in KnownTypes THEN detect_extension_from_content_type(r.ctype)
                                          ELSE detect_extension_from_magic(body)
    IN  { id \o ext : id \in Ids }

(***************************************************************************)
(* process_request: dispatch on the method                                 *)
(***************************************************************************)

Route(kind, name, responses) == [kind |-> kind, name |-> name, resp |-> responses]

\* A path built from a name.
Built(path, name) == [path |-> path, from |-> name]

\* main.c: the name is already resolved and validated.
dispatch_c(r, name, f) ==
    CASE r.method = "GET" -> { Route("get", name, rs) : rs \in handle_get("c", r, name.text, f) }
      [] r.method = "POST" -> { Route("post", name, <<>>) }
      [] r.method = "HEAD" -> { Route("get", name, rs) : rs \in handle_head("c", r, name.text, f) }
      [] OTHER -> { Route("respond", name, <<send_error(501)>>) }

\* main.cpp: POST to /upload under a generated name; GET and HEAD on
\* /retrieve with the name parameter decoded and validated here.
dispatch_cpp(r, f, body) ==
    CASE r.method = "POST" ->
            IF r.path_only # "/upload" THEN { Route("respond", Absent, <<send_error(400)>>) }
            ELSE { Route("post", Some(n), <<>>) : n \in handle_upload_names(r, body) }
      [] r.method \in {"GET", "HEAD"} ->
            IF r.path_only # "/retrieve" THEN { Route("respond", Absent, <<send_error(400)>>) }
            ELSE
              LET q == IF r.query.has /\ r.query.text # <<>>
                          THEN get_query_param(r.query.text, NameKey)
                          ELSE [ok |-> FALSE, value |-> <<>>]
              IN  IF ~q.ok THEN { Route("respond", Absent, <<send_error(400)>>) }
                  ELSE IF ~valid_filename(q.value)
                          THEN { Route("respond", Some(q.value), <<send_error(400)>>) }
                          ELSE { Route("get", Some(q.value), rs) :
                                    rs \in handle_retrieve(r, q.value, f, r.method = "HEAD") }
      [] OTHER -> { Route("respond", Absent, <<send_error(501)>>) }

\* The bytes the socket's send buffer takes from a peer that reads nothing.
SndBuf == 2

\* send() on the blocking socket: only SO_RCVTIMEO is set on it, so a send
\* of more than the send buffer has room for returns once the peer has
\* read enough or has gone, and not before.  The file bytes of a 200 are
\* the one send that can be that large.
send_outcomes(responses) ==
    IF \E i \in 1..Len(responses) :
          responses[i].body.kind = "file" /\ responses[i].body.len > SndBuf
       THEN {"done", "send_blocked"}
       ELSE {"done"}

\* The method dispatch of process_request.  GET and HEAD are answered
\* here; for POST handle_post checks the size, builds the destination and
\* temporary paths and goes on to write.
Dispatch ==
    /\ mainpc = "request"
    /\ pc = "dispatch"
    /\ \E o \in (IF variant = "c" THEN dispatch_c(req, filename, fs) ELSE dispatch_cpp(req, fs, Body(req, body_len))) :
          /\ filename' = o.name
          /\ IF o.kind = "post"
                THEN IF body_len > MAX_FILE_SIZE
                        THEN /\ resp' = Append(resp, send_error(413))
                             /\ pc' = "done"
                             /\ UNCHANGED <<built, dest_before>>
                        ELSE /\ resp' = resp
                             /\ pc' = "post_open"
                             /\ built' = built \cup
                                   { Built(build_save_path(o.name.text), o.name.text),
                                     Built(temppath(build_save_path(o.name.text)), o.name.text) }
                             /\ dest_before' = Content(fs, build_save_path(o.name.text))
                ELSE /\ resp' = resp \o o.resp
                     /\ pc' \in send_outcomes(o.resp)
                     /\ built' = IF o.kind = "get"
                                    THEN built \cup {Built(build_serve_path(o.name.text), o.name.text)}
                                    ELSE built
                     /\ UNCHANGED dest_before
    /\ UNCHANGED <<variant, open_fds, server_running, mainpc, nconn, clock, req, received,
                   content_length, body_len, alloc, fs, jobs, children, fs0, uploaded, fn>>

(***************************************************************************)
(* handle_post: temporary file, rename, post-processor, response           *)
(***************************************************************************)

dest == build_save_path(filename.text)
tmp == temppath(dest)

\* What the upload wrote when all of the body reached the file.
complete_body == File(req.data, body_len, clock)

PostFrame == <<variant, open_fds, server_running, mainpc, nconn, clock, req, received,
               content_length, body_len, alloc, filename, fs0, dest_before, fn>>

\* fopen(temppath, "wb") / std::ofstream f(temppath): the file is created
\* or truncated; on failure 500.
PostOpen ==
    /\ mainpc = "request"
    /\ pc = "post_open"
    /\ \/ /\ fs' = Put(fs, tmp, File(req.data, 0, clock))
          /\ pc' = "post_write"
          /\ resp' = resp
       \/ /\ fs' = fs
          /\ pc' = "done"
          /\ resp' = Append(resp, send_error(500))
    /\ UNCHANGED PostFrame
    /\ UNCHANGED <<jobs, children, built, uploaded>>

\* fwrite / f.write of body_len bytes; a short write is answered by
\* unlink(temppath) and 500.
PostWrite ==
    /\ mainpc = "request"
    /\ pc = "post_write"
    /\ \/ /\ fs' = Put(fs, tmp, complete_body)
          /\ pc' = "post_close"
          /\ resp' = resp
       \/ /\ body_len > 0
          /\ fs' = Del(fs, tmp)
          /\ pc' = "done"
          /\ resp' = Append(resp, send_error(500))
    /\ UNCHANGED PostFrame
    /\ UNCHANGED <<jobs, children, built, uploaded>>

\* C: fclose(f), and on failure unlink(temppath) and 500.  C++: the stream
\* is closed by its destructor at the end of the block, which reports
\* nothing: when the flush fails the bytes still in the stream buffer never
\* reach the file and handle_post goes on.
PostClose ==
    /\ mainpc = "request"
    /\ pc = "post_close"
    /\ \/ /\ fs' = fs
          /\ pc' = "post_rename"
          /\ resp' = resp
       \/ /\ body_len > 0
          /\ IF variant = "c"
                THEN /\ fs' = Del(fs, tmp)
                     /\ pc' = "done"
                     /\ resp' = Append(resp, send_error(500))
                ELSE /\ fs' = Put(fs, tmp, File(req.data, 0, clock))
                     /\ pc' = "post_rename"
                     /\ resp' = resp
    /\ UNCHANGED PostFrame
    /\ UNCHANGED <<jobs, children, built, uploaded>>

\* rename(temppath, filepath); on failure unlink(temppath) and 500.
PostRename ==
    /\ mainpc = "request"
    /\ pc = "post_rename"
    /\ \/ /\ fs' = Rename(fs, tmp, dest)
          /\ pc' = "post_finish"
          /\ resp' = resp
       \/ /\ fs' = Del(fs, tmp)
          /\ pc' = "done"
          /\ resp' = Append(resp, send_error(500))
    /\ UNCHANGED PostFrame
    /\ UNCHANGED <<jobs, children, built, uploaded>>

\* strrchr(filename, '.'): the index of the last dot, 0 when there is none.
last_dot(name) ==
    LET dots == {i \in 1..Len(name) : name[i] = Ord["."]}
    IN  IF dots = {} THEN 0 ELSE CHOOSE i \in dots : \A k \in dots : k <= i

\* "<name up to its last dot>.webp".
webp_filename(name) == SubSeq(name, 1, last_dot(name) - 1) \o B(<<".", "w", "e", "b", "p">>)

webp_path(name) == [dir |-> SERVE_DIR, name |-> webp_filename(name)]

\* compress_to_webp_background: nothing when the executable's path or
\* compressor.sh cannot be found or fork() fails; else one child that runs
\* the post-processor on (input, output).  The caller learns neither.
compress_to_webp_background(input, output) ==
    { {}, {[input |-> input, output |-> output]} }

\* fork(): the child is a copy of the server, the descriptors it has open
\* included; it has yet to sleep(1) and to run the post-processor on the
\* file that is at its input path by then.  `published` is what the upload
\* left there.
fork(j, pid, fds, published) ==
    { [pid |-> pid, input |-> x.input, output |-> x.output, phase |-> "sleeping",
       fds |-> fds, published |-> published, seen |-> NoContent] : x \in j }

\* An upload response that reports a post-processor that was not started.
upload_response_mutant(impl, name, started) ==
    IF started = {} THEN send_response(impl, 500, HtmlBody, {}, NoMeta)
    ELSE send_response(impl, 200, JsonBody(<<>>), {}, NoMeta)

\* The response that follows compress_to_webp_background, which returns
\* nothing: 200 with the JSON body, {"status":"success"} from handle_post
\* and the name of the derivative from the routed upload.
upload_response(impl, name, started) ==
    send_response(impl, 200, JsonBody(IF impl = "c" THEN <<>> ELSE webp_filename(name)),
                  {}, NoMeta)

\* After the rename: chmod, the extension check (400 when the name has no
\* dot), the post-processor and the 200 response.
PostFinish ==
    /\ mainpc = "request"
    /\ pc = "post_finish"
    /\ IF last_dot(filename.text) = 0
          THEN /\ resp' = Append(resp, send_error(400))
               /\ UNCHANGED <<jobs, children, built, uploaded>>
          ELSE /\ \E j \in compress_to_webp_background(dest, webp_path(filename.text)) :
                     /\ jobs' = jobs \cup j
                     /\ children' = children \cup fork(j, nconn, open_fds, Content(fs, dest))
                     /\ resp' = Append(resp, upload_response(variant, filename.text, j))
               /\ built' = built \cup {Built(webp_path(filename.text), filename.text)}
               /\ uploaded' = Put(uploaded, filename.text, complete_body)
    /\ pc' = "done"
    /\ UNCHANGED PostFrame
    /\ UNCHANGED fs

\* The peer reads the bytes it was sent, or closes: the send() the handler
\* is blocked in returns and the handler goes on to its end.
SendReturns ==
    /\ mainpc = "request"
    /\ pc = "send_blocked"
    /\ pc' = "done"
    /\ UNCHANGED <<variant, open_fds, server_running, mainpc, nconn, clock, req, received,
                   content_length, body_len, alloc, filename, resp, fs, jobs, children, fn>>
    /\ UNCHANGED histvars

\* close(client_fd) without closing it: the descriptor stays open.
close_mutant(fds, fd) == fds

\* close(client_fd) of main.c, ~ScopedFileDescriptor of main.cpp.
close(fds, fd) == fds \ {fd}

\* process_request has returned: the connection is closed and the loop
\* goes round.
Close ==
    /\ mainpc = "request"
    /\ pc = "done"
    /\ mainpc' = "loop"
    /\ pc' = "idle"
    /\ req' = NoReq
    /\ received' = 0
    /\ content_length' = 0
    /\ body_len' = 0
    /\ alloc' = 0
    /\ filename' = Absent
    /\ resp' = <<>>
    /\ built' = {}
    /\ fs0' = fs
    /\ dest_before' = NoContent
    /\ open_fds' = close(open_fds, nconn)
    /\ UNCHANGED <<variant, server_running, nconn, clock, fs, jobs, children, uploaded, fn>>

(***************************************************************************)
(* The server                                                              *)
(***************************************************************************)

Next ==
    \/ MainLoop
    \/ Accept
    \/ AcceptError
    \/ Signal
    \/ RecvHeadFail
    \/ RecvHead
    \/ ParseRequest
    \/ RecvBodyFail
    \/ RecvBody
    \/ Dispatch
    \/ PostOpen
    \/ PostWrite
    \/ PostClose
    \/ PostRename
    \/ PostFinish
    \/ SendReturns
    \/ Close

Spec == Init /\ [][Next]_vars

\* A save root that holds a file whose name ends in ".tmp": "a.b.tmp", a
\* name valid_filename of utils.c accepts, stored by an upload of an
\* earlier run of the C build; the serve root holds a.b.
StaleFs ==
    Put(Put(EmptyFs, build_serve_path(B(<<"a", ".", "b">>)), File(0, 3, 0)),
        build_save_path(B(<<"a", ".", "b", ".", "t", "m", "p">>)), File(0, 3, 0))

\* The C build started over that save root.
InitStale ==
    /\ variant = "c"
    /\ server_running = 1
    /\ mainpc = "loop"
    /\ nconn = 0
    /\ clock = 0
    /\ req = NoReq
    /\ pc = "idle"
    /\ received = 0
    /\ content_length = 0
    /\ body_len = 0
    /\ alloc = 0
    /\ filename = Absent
    /\ resp = <<>>
    /\ fs = StaleFs
    /\ jobs = {}
    /\ children = {}
    /\ open_fds = {}
    /\ built = {}
    /\ fs0 = fs
    /\ dest_before = NoContent
    /\ uploaded = EmptyFs
    /\ fn = NoFn

SpecStale == InitStale /\ [][Next]_vars

(***************************************************************************)
(* The forked children of compress_to_webp_background                      *)
(***************************************************************************)

ChildFrame == <<variant, server_running, mainpc, nconn, clock, fs, jobs, open_fds, fn>>

\* The child's sleep(1) is over and system(cmd) starts the post-processor,
\* which reads what is at the input path now.
ChildWake ==
    /\ \E c \in children :
          /\ c.phase = "sleeping"
          /\ children' = (children \ {c})
                \cup {[c EXCEPT !.phase = "running", !.seen = Content(fs, c.input)]}
    /\ UNCHANGED ChildFrame
    /\ UNCHANGED connvars
    /\ UNCHANGED histvars

\* system(cmd) returns and the child calls _exit: its descriptors are
\* closed, and it stays in the process table until its parent waits for
\* it.  No build calls wait or waitpid, or changes the disposition of
\* SIGCHLD, so no action takes an exited child away.
ChildExit ==
    /\ \E c \in children :
          /\ c.phase = "running"
          /\ children' = (children \ {c}) \cup {[c EXCEPT !.phase = "exited", !.fds = {}]}
    /\ UNCHANGED ChildFrame
    /\ UNCHANGED connvars
    /\ UNCHANGED histvars

\* The clients of the server while its children are followed: uploads of
\* a.b with no body and with a body of two bytes, and retrievals of a.b,
\* on the paths of both builds.
ChildReqs ==
    { [BaseReq EXCEPT !.method = m, !.path_only = p] :
          m \in {"GET", "POST"}, p \in {"/", "/upload", "/retrieve"} }
    \cup { [BaseReq EXCEPT !.path_only = p, !.total = SmallHead + 2,
                           !.cl = Some(<<Ord[" "]>> \o Digits(2, 10)), !.data = 2] :
              p \in {"/", "/upload"} }

AcceptChild == accept(ChildReqs)

\* The server and its children, over a serve root that holds a.b.
InitChild == Init /\ fs # EmptyFs

NextChild ==
    \/ MainLoop
    \/ AcceptChild
    \/ AcceptError
    \/ Signal
    \/ RecvHeadFail
    \/ RecvHead
    \/ ParseRequest
    \/ RecvBodyFail
    \/ RecvBody
    \/ Dispatch
    \/ PostOpen
    \/ PostWrite
    \/ PostClose
    \/ PostRename
    \/ PostFinish
    \/ SendReturns
    \/ Close
    \/ ChildWake
    \/ ChildExit

SpecChild == InitChild /\ [][NextChild]_vars

\* The scheduler runs every child that can take a step.
SpecChildFair == SpecChild /\ WF_vars(ChildWake) /\ WF_vars(ChildExit)

(***************************************************************************)
(* The pure helpers, applied to enumerated arguments                       *)
(***************************************************************************)

MaxNameLen == 3

\* Letters, a digit, the three punctuation marks of the allow-list, the
\* separators, '%', NUL and a byte above 127.
NameAlphabet ==
    { Ord["a"], 90, Ord["0"], Ord["."], Ord["_"], Ord["-"], Ord["/"], Ord["\\"],
      Ord["%"], Ord["NUL"], 200 }

\* Every name of at most MaxNameLen bytes, names around the length limit,
\* and names with two separate dots ("a.a.a", "a.a.", "a.a_.a/").
Names ==
    UNION { [1..n -> NameAlphabet] : n \in 0..MaxNameLen }
    \cup { Pad(<<>>, MAX_FILENAME_LEN), Pad(<<>>, MAX_FILENAME_LEN + 1),
           Pad(B(<<"a", ".">>), MAX_FILENAME_LEN - 2),
           Pad(B(<<"a", ".">>), MAX_FILENAME_LEN - 1),
           B(<<"a", ".", "a", ".", "a">>),
           B(<<"a", ".", "a", ".">>),
           B(<<"a", ".", "a", "_", ".", "a", "/">>) }

Impls == {"utils.c", "utils.cpp", "a.c"}

\* The arguments a build can hand its validator: a C string holds no NUL.
ArgsOf(impl) == IF impl = "utils.cpp" THEN Names ELSE {n \in Names : ~HasByte(n, 0)}

valid_filename_of(impl, name) ==
    IF impl = "a.c" THEN valid_filename_a(name) ELSE valid_filename(name)

FnFrame == <<variant, open_fds, server_running, mainpc, nconn, clock, fs, jobs, children>>

\* A caller hands a name to the validator of one build.
FnCall ==
    /\ fn.op = "none"
    /\ \E impl \in Impls : \E arg \in ArgsOf(impl) :
          fn' = [op |-> "valid_filename", impl |-> impl, arg |-> arg,
                 done |-> FALSE, res |-> FALSE]
    /\ UNCHANGED FnFrame
    /\ UNCHANGED connvars
    /\ UNCHANGED histvars

\* The validator returns.
FnReturn ==
    /\ fn.op = "valid_filename"
    /\ ~fn.done
    /\ fn' = [fn EXCEPT !.done = TRUE, !.res = valid_filename_of(fn.impl, fn.arg)]
    /\ UNCHANGED FnFrame
    /\ UNCHANGED connvars
    /\ UNCHANGED histvars

\* The three programs of the repository that answer requests: the C
\* build, the C++ build and the single-file server a.c.
Builds == {"c", "cpp", "a.c"}

\* The places a response header block is written, with the status codes
\* each is used for: send_response (through send_error, send_not_modified
\* and the upload's 200), handle_options, and the 200 of handle_get and of
\* handle_head.
ResponseSites ==
    { [site |-> "send_response", code |-> c] : c \in {200, 304, 400, 404, 413, 500, 501} }
    \cup { [site |-> "handle_options", code |-> 204],
           [site |-> "handle_get", code |-> 200],
           [site |-> "handle_head", code |-> 200] }

\* The response a build writes at a site.
response_at(impl, at) ==
    CASE at.site = "handle_options" -> handle_options(impl)
      [] at.site = "handle_get" ->
            file_response(impl, FileBody(File(0, 3, 0)), generate_etag_c(0, 3), format_http_date(0))
      [] at.site = "handle_head" ->
            file_response(impl, NoBody, generate_etag_c(0, 3), format_http_date(0))
      [] at.code = 304 ->
            send_response(impl, 304, NoBody, CacheHeaders,
                          Meta(generate_etag_c(0, 3), format_http_date(0)))
      [] at.code = 200 -> send_response(impl, 200, JsonBody(<<>>), {}, NoMeta)
      [] OTHER -> send_response(impl, at.code, HtmlBody, {}, NoMeta)

\* A build is about to write a response at one of the sites.
RespondCall ==
    /\ fn.op = "none"
    /\ \E impl \in Builds : \E at \in ResponseSites :
          fn' = [op |-> "respond", impl |-> impl, arg |-> at, done |-> FALSE, res |-> FALSE]
    /\ UNCHANGED FnFrame
    /\ UNCHANGED connvars
    /\ UNCHANGED histvars

\* The response is written.
RespondReturn ==
    /\ fn.op = "respond"
    /\ ~fn.done
    /\ fn' = [fn EXCEPT !.done = TRUE, !.res = response_at(fn.impl, fn.arg)]
    /\ UNCHANGED FnFrame
    /\ UNCHANGED connvars
    /\ UNCHANGED histvars

\* What stat() may report of a file: modification times and sizes whose
\* digits run into each other, in hexadecimal (1 and 17 are "1" and "11")
\* and in decimal (1 and 11).
MaxStat == 17
Stats == { [mtime |-> m, len |-> n] : m \in {0, 1, 11, MaxStat}, n \in {0, 1, 11, MaxStat} }

\* The validators a handler computes from one stat result: the lines
\* format_http_date(last_modified, ..., st.st_mtime) and
\* generate_etag(etag, ..., &st) of handle_get and handle_head.
cache_descriptor(impl, st) ==
    Meta(IF impl = "utils.cpp" THEN generate_etag_cpp(st.mtime, st.len)
                               ELSE generate_etag_c(st.mtime, st.len),
         format_http_date(st.mtime))

\* Two requests have each had stat() report a file state.
CacheCall ==
    /\ fn.op = "none"
    /\ \E impl \in {"utils.c", "utils.cpp"} : \E st1 \in Stats : \E st2 \in Stats :
          fn' = [op |-> "cache_descriptor", impl |-> impl, arg |-> <<st1, st2>>,
                 done |-> FALSE, res |-> FALSE]
    /\ UNCHANGED FnFrame
    /\ UNCHANGED connvars
    /\ UNCHANGED histvars

\* Each request has computed its validators.
CacheReturn ==
    /\ fn.op = "cache_descriptor"
    /\ ~fn.done
    /\ fn' = [fn EXCEPT !.done = TRUE,
                        !.res = <<cache_descriptor(fn.impl, fn.arg[1]),
                                  cache_descriptor(fn.impl, fn.arg[2])>>]
    /\ UNCHANGED FnFrame
    /\ UNCHANGED connvars
    /\ UNCHANGED histvars

MaxValueLen == 3

\* 'a', '+', '%', '4', '0' and '&': enough for "%40", "%00", "a+a", "a&a".
ValueAlphabet == {97, 43, 37, 52, 48, 38}

\* The query strings handed to get_query_param: "name=" and every value of
\* at most MaxValueLen bytes, the key after another parameter, the key
\* without '=', a misspelt key, the key ended by a space, and values around
\* the size of the destination buffer, the last one 86 times "%40", whose
\* decoded bytes fit the destination and whose encoded bytes do not.
ParamQueries ==
    { NameKey \o <<61>> \o v :
          v \in UNION { [1..n -> ValueAlphabet] : n \in 0..MaxValueLen } }
    \cup { <<97, 61, 48, 38>> \o NameKey \o <<61, 97, 48>>,
           NameKey,
           <<110, 97, 109, 61, 97>>,
           NameKey \o <<61, 97, 32, 48>>,
           NameKey \o <<61>> \o Pad(<<>>, MAX_FILENAME_LEN - 1),
           NameKey \o <<61>> \o Pad(<<>>, MAX_FILENAME_LEN),
           NameKey \o <<61>> \o Pad(<<>>, MAX_FILENAME_LEN + 1),
           NameKey \o <<61>> \o Pad(<<37, 52, 48>>, MAX_FILENAME_LEN),
           NameKey \o <<61>> \o [i \in 1..(MAX_FILENAME_LEN + 3) |-> <<37, 52, 48>>[((i - 1) % 3) + 1]] }

\* get_query_param of utils.c with the destination of main.c
\* (char filename[MAX_FILENAME_LEN + 1]) and of utils.cpp, as the set of
\* outcomes a call can have.  utils.c copies the encoded value into
\* char encoded[MAX_FILENAME_LEN] and writes encoded[len] = 0 for any
\* len < value_size: at len = MAX_FILENAME_LEN the NUL is written one byte
\* past the array, which is undefined: the call returns as if the array
\* were large enough, or the process is stopped (stack protector).
get_query_param_outcomes(impl, query) ==
    IF impl = "utils.cpp"
       THEN { [ret |-> get_query_param(query, NameKey), crashed |-> FALSE] }
       ELSE LET start == Find(query, NameKey \o <<61>>) + Len(NameKey) + 1
                len   == ValueEnd(query, start) - start
            IN { [ret |-> get_query_param_c(query, NameKey, MAX_FILENAME_LEN + 1),
                  crashed |-> FALSE] }
               \cup IF Find(query, NameKey \o <<61>>) # 0 /\ len = MAX_FILENAME_LEN
                       THEN { [ret |-> [ok |-> FALSE, value |-> <<>>], crashed |-> TRUE] }
                       ELSE {}

\* The highest index get_query_param of utils.c (a.c has the same text)
\* writes in each of its two buffers, -1 for a buffer it does not write:
\* memcpy fills encoded[0 .. len-1] and the terminator goes to
\* encoded[len]; url_decode writes the decoded bytes and a terminator to
\* value.  utils.cpp has no such buffers.
get_query_param_writes(impl, query, value_size) ==
    LET pos   == Find(query, NameKey \o <<61>>)
        start == pos + Len(NameKey) + 1
        len   == ValueEnd(query, start) - start
    IN  IF impl = "utils.cpp" \/ pos = 0 \/ len = 0 \/ len >= value_size
           THEN [encoded |-> -1, value |-> -1]
           ELSE [encoded |-> len,
                 value |-> Len(url_decode(SubSeq(query, start, start + len - 1)))]

\* A caller hands a query string to get_query_param with the key "name".
ParamCall ==
    /\ fn.op = "none"
    /\ \E impl \in {"utils.c", "utils.cpp"} : \E q \in ParamQueries :
          fn' = [op |-> "get_query_param", impl |-> impl, arg |-> q,
                 done |-> FALSE, res |-> FALSE]
    /\ UNCHANGED FnFrame
    /\ UNCHANGED connvars
    /\ UNCHANGED histvars

\* get_query_param returns, or the process stops in it.
ParamReturn ==
    /\ fn.op = "get_query_param"
    /\ ~fn.done
    /\ \E o \in get_query_param_outcomes(fn.impl, fn.arg) :
          fn' = [fn EXCEPT
                    !.done = TRUE,
                    !.res = [ret |-> o.ret, crashed |-> o.crashed,
                             writes |-> get_query_param_writes(fn.impl, fn.arg,
                                                               MAX_FILENAME_LEN + 1)]]
    /\ UNCHANGED FnFrame
    /\ UNCHANGED connvars
    /\ UNCHANGED histvars

\* The states of one served file at two retrievals: two or three bytes of
\* one of two uploads' bodies, written in second 0 or 1.
Versions == { File(d, n, m) : d \in {1, 2}, n \in {2, 3}, m \in {0, 1} }

\* The second retrieval: a GET for a.b that presents, in If-None-Match,
\* the ETag the first retrieval reported.
Revalidation(v, first) ==
    [BaseReq EXCEPT !.method = "GET",
                    !.inm = Some(<<Ord[" "]>> \o generate_etag(v, first))]

\* A client retrieves a.b, the file changes or not, and the client asks
\* again with the validator it was given.
RevalidateCall ==
    /\ fn.op = "none"
    /\ \E v \in {"c", "cpp"} : \E first \in Versions : \E second \in Versions :
          fn' = [op |-> "revalidate", impl |-> v, arg |-> <<first, second>>,
                 done |-> FALSE, res |-> FALSE]
    /\ UNCHANGED FnFrame
    /\ UNCHANGED connvars
    /\ UNCHANGED histvars

\* handle_get answers the second retrieval.
RevalidateReturn ==
    /\ fn.op = "revalidate"
    /\ ~fn.done
    /\ \E rs \in handle_get(fn.impl, Revalidation(fn.impl, fn.arg[1]), B(<<"a", ".", "b">>),
                             Put(EmptyFs, build_serve_path(B(<<"a", ".", "b">>)), fn.arg[2])) :
          fn' = [fn EXCEPT !.done = TRUE, !.res = rs]
    /\ UNCHANGED FnFrame
    /\ UNCHANGED connvars
    /\ UNCHANGED histvars

\* The loop of handle_get that sends the file: the sizes of the files it
\* is followed on, and a buffer small enough for the loop to go round on
\* them (the handlers read BUFFER_SIZE bytes at a time).
MaxFileLen == 3
ChunkLen == 2

\* send(fd, buffer, n, 0): -1 on an error, else the number of bytes the
\* socket took, which may be fewer than n (a signal that arrives while the
\* call is blocked, after some bytes have gone).
send_returns(n) == {-1} \cup (1..n)

\* The loop as it stands before its first fread: nothing read, nothing on
\* the socket.
SendStart == [pos |-> 0, wire |-> <<>>, error |-> FALSE]

\* handle_get starts to send a file of `len` bytes through a buffer of
\* `buf` bytes.
SendFileCall ==
    /\ fn.op = "none"
    /\ \E v \in {"c", "cpp"} : \E len \in 0..MaxFileLen : \E buf \in {ChunkLen, BUFFER_SIZE} :
          fn' = [op |-> "send_file", impl |-> v, arg |-> [len |-> len, buf |-> buf],
                 done |-> FALSE, res |-> SendStart]
    /\ UNCHANGED FnFrame
    /\ UNCHANGED connvars
    /\ UNCHANGED histvars

\* One turn of the loop: fread (f.read) fills the buffer with the next n
\* bytes of the file, send is called once on them, and its result is
\* added to total_sent; the bytes it did not take are not offered again,
\* the next turn reads on from the file.  `wire` lists the file offsets of
\* the bytes the socket took.  The loop ends when there is nothing left to
\* read or send fails.
SendFileStep ==
    /\ fn.op = "send_file"
    /\ ~fn.done
    /\ LET n == IF fn.arg.len - fn.res.pos < fn.arg.buf THEN fn.arg.len - fn.res.pos
                ELSE fn.arg.buf
       IN  IF n = 0
              THEN fn' = [fn EXCEPT !.done = TRUE]
              ELSE \E sent \in send_returns(n) :
                      IF sent < 0
                         THEN fn' = [fn EXCEPT !.done = TRUE, !.res.error = TRUE]
                         ELSE fn' = [fn EXCEPT
                                        !.res.pos = @ + n,
                                        !.res.wire = @ \o [i \in 1..sent |-> fn.res.pos + i]]
    /\ UNCHANGED FnFrame
    /\ UNCHANGED connvars
    /\ UNCHANGED histvars

\* "RIFF", four bytes of length and "WEBP": the first bytes of a WebP file.
RiffWebp == <<82, 73, 70, 70, 120, 120, 120, 120, 87, 69, 66, 80>>

\* Bodies handed to detect_extension_from_magic: every leading part of
\* RiffWebp, RIFF files of 8 to 12 bytes that are not WebP, the signatures
\* of the other types in 8 bytes, bytes with no signature, and a JPEG
\* signature in fewer than 8 bytes.
MagicBodies ==
    { SubSeq(RiffWebp, 1, n) : n \in 0..Len(RiffWebp) }
    \cup { SubSeq(RiffWebp, 1, 8) \o [i \in 1..n |-> 120] : n \in 1..4 }
    \cup { <<255, 216, 255, 224, 74, 70, 73, 70>>,
           <<137, 80, 78, 71, 13, 10, 26, 10>>,
           <<71, 73, 70, 56, 57, 97, 120, 120>>,
           <<37, 80, 68, 70, 45, 49, 46, 52>>,
           <<80, 75, 3, 4, 120, 120, 120, 120>>,
           [i \in 1..MagicLen |-> 120],
           <<255, 216, 255>> }

\* The upload operation hands a body to detect_extension_from_magic.
MagicCall ==
    /\ fn.op = "none"
    /\ \E body \in MagicBodies :
          fn' = [op |-> "detect_extension_from_magic", impl |-> "utils.cpp", arg |-> body,
                 done |-> FALSE, res |-> FALSE]
    /\ UNCHANGED FnFrame
    /\ UNCHANGED connvars
    /\ UNCHANGED histvars

\* detect_extension_from_magic returns: its result, and the offsets of
\* data it read.
MagicReturn ==
    /\ fn.op = "detect_extension_from_magic"
    /\ ~fn.done
    /\ fn' = [fn EXCEPT !.done = TRUE,
                        !.res = [ext |-> detect_extension_from_magic(fn.arg),
                                 reads |-> magic_reads(fn.arg)]]
    /\ UNCHANGED FnFrame
    /\ UNCHANGED connvars
    /\ UNCHANGED histvars

InitFn == Init /\ variant = "c" /\ fs = EmptyFs

NextFn ==
    \/ FnCall \/ FnReturn \/ RespondCall \/ RespondReturn \/ CacheCall \/ CacheReturn
    \/ ParamCall \/ ParamReturn
    \/ RevalidateCall \/ RevalidateReturn
    \/ SendFileCall \/ SendFileStep
    \/ MagicCall \/ MagicReturn

SpecFn == InitFn /\ [][NextFn]_vars

(***************************************************************************)
(* Properties                                                              *)
(***************************************************************************)

\* The resource-name invariant, stated on the bytes: 1 to 255 characters,
\* each a letter, a digit, '.', '_' or '-', no leading '.', no "..".
SafeName(n) ==
    /\ Len(n) >= 1
    /\ Len(n) <= 255
    /\ \A i \in 1..Len(n) : n[i] \in (48..57) \cup (65..90) \cup (97..122) \cup {46, 95, 45}
    /\ n[1] # 46
    /\ \A i \in 1..(Len(n) - 1) : ~(n[i] = 46 /\ n[i + 1] = 46)

\* A path that stays in its root: the root is one of the two directories
\* and the name holds no separator, no ".." and no leading dot.
PathInRoot(p) ==
    /\ p.dir \in {"./save", "./serve"}
    /\ Len(p.name) >= 1
    /\ \A i \in 1..Len(p.name) : p.name[i] \notin {47, 92, 0}
    /\ p.name[1] # 46
    /\ \A i \in 1..(Len(p.name) - 1) : ~(p.name[i] = 46 /\ p.name[i + 1] = 46)

\* process_request has returned (or the process has died in it).
Returned == mainpc \in {"request", "aborted"} /\ pc = "done"

\* The connection was sent exactly one response, of this status and body.
Answered(status, body) ==
    Len(resp) = 1 /\ resp[1].status = status /\ resp[1].body = body

\* C1 (path safety): every path built under the save or the serve root (the
\* destination, its .tmp and the .webp derivative included) is built from a
\* name that satisfies the resource-name invariant and stays in its root;
\* and a request whose decoded name fails validation is answered 400 and
\* nothing but 400, no path is built and the file system is as it was when
\* the connection was accepted.
C1_PathSafety ==
    /\ \A b \in built : SafeName(b.from) /\ PathInRoot(b.path)
    /\ (Returned /\ filename.has /\ ~SafeName(filename.text))
          => (resp = <<send_error(400)>> /\ built = {} /\ fs = fs0)

\* C1 witness: the name parameter decoded to "../x" and the request was
\* answered 400.
C1_Witness ==
    /\ Returned
    /\ filename = Some(B(<<".", ".", "/", "x">>))
    /\ resp = <<send_error(400)>>
    /\ fs = fs0

\* C2 (validator): whatever name a validator accepts is 1 to 255 characters
\* long, made of letters, digits, '.', '_' and '-' only, does not start
\* with '.', '/' or '\' and holds no "..", '/' or '\'; every other name is
\* rejected, by the validators of utils.c, utils.cpp and a.c alike.
C2_ValidatorRejects ==
    (fn.op = "valid_filename" /\ fn.done /\ fn.res) => SafeName(fn.arg)

\* C2 witness: utils.c's validator has rejected "a..", whose characters are
\* all allowed.
C2_Witness ==
    /\ fn.op = "valid_filename"
    /\ fn.impl = "utils.c"
    /\ fn.done
    /\ fn.arg = B(<<"a", ".", ".">>)
    /\ ~fn.res

\* The files under the serve root.
ServeFiles(f) == [p \in {q \in DOMAIN f : q.dir = "./serve"} |-> f[p]]

\* A GET or HEAD whose name passed validation has been handled.
Retrieved(m) ==
    /\ Returned
    /\ mainpc = "request"
    /\ req.method = m
    /\ filename.has
    /\ SafeName(filename.text)
    /\ resp # <<>>

ETagMatches ==
    LET p == [dir |-> "./serve", name |-> filename.text]
    IN  /\ p \in DOMAIN fs
        /\ header_contains(req.inm, generate_etag(variant, fs[p]))

\* C4 as the spec states it (conditional retrieval): a GET or HEAD whose
\* If-None-Match contains the file's current ETag is answered 304 with no
\* body.
C4_NotModifiedAsStated ==
    ((Retrieved("GET") \/ Retrieved("HEAD")) /\ ETagMatches)
        => Answered(304, NoBody)

\* The Content-Length text declares more than the maximum request size.
DeclaresTooMuch(r) ==
    /\ r.cl.has /\ ~r.cl_in_body
    /\ ~NumText(r.cl.text).neg
    /\ Magnitude(NumText(r.cl.text).digits) > 128 * 1024 * 1024

\* The request is an upload on the path its build accepts, with a complete
\* header block.
IsUpload(r) ==
    /\ r.method = "POST"
    /\ request_line_ok(r)
    /\ r.path_only = (IF variant = "c" THEN "/" ELSE "/upload")
    /\ (variant = "c" => r.query.has /\ get_query_param_c(r.query.text, NameKey, 256).ok)
    /\ (filename.has => SafeName(filename.text))

\* C5 as the spec states it (size limit): an upload that declares more
\* than the maximum is answered 413 and no file is created or changed.
C5_SizeLimitAsStated ==
    (Returned /\ header_end_found(req, received) /\ IsUpload(req) /\ DeclaresTooMuch(req))
        => (resp = <<send_error(413)>> /\ fs = fs0)

\* The first CR LF CR LF of the stream lies within the bytes received.
TerminatorReceived == req.head_len >= 1 /\ req.head_len <= received

\* handle_post is at work on the upload.
InPost == pc \in {"post_open", "post_write", "post_close", "post_rename", "post_finish"}

\* C6 (header bound): the header buffer never holds more than
\* BUFFER_SIZE - 1 bytes; the request is parsed only once the terminator is
\* among the bytes received; and when BUFFER_SIZE - 1 bytes have come
\* without one, reading has stopped and the answer is 400.
C6_HeaderBound ==
    /\ received <= BUFFER_SIZE - 1
    /\ (pc \in {"parse", "recv_body", "dispatch"} \/ InPost) => TerminatorReceived
    /\ (received = BUFFER_SIZE - 1 /\ ~TerminatorReceived)
          => (pc = "done" /\ resp = <<send_error(400)>>)

\* C6 witness: a client that sends more than a buffer of bytes with no
\* terminator has been answered 400 after BUFFER_SIZE - 1 of them.
C6_Witness ==
    /\ Returned
    /\ req.head_len = 0
    /\ req.total > BUFFER_SIZE
    /\ received = BUFFER_SIZE - 1
    /\ resp = <<send_error(400)>>

\* C7 as the spec states it (atomic publish): from the moment an upload
\* builds its paths, its destination holds what it held before or the
\* complete body, never anything else.
C7_AtomicPublishAsStated ==
    (mainpc = "request" /\ req.method = "POST" /\ filename.has /\ built # {}
       /\ (InPost \/ pc = "done"))
        => Content(fs, [dir |-> "./save", name |-> filename.text])
              \in {dest_before, [data |-> req.data, len |-> body_len]}

\* C8 as the spec states it (exact body framing): when the method dispatch
\* or a handler runs, body_len equals the declared Content-Length and does
\* not exceed the body allocation.
C8_ExactFramingAsStated ==
    (mainpc = "request" /\ (pc = "dispatch" \/ InPost))
        => (body_len = content_length /\ (content_length > 0 => body_len <= alloc))

\* C9 as the spec states it (no request kills the server): the process is
\* never terminated from within process_request.
C9_ServerSurvivesAsStated == mainpc # "aborted"

\* C10 as the spec states it (shutdown): once the signal handler has
\* cleared server_running, no further connection is accepted.
C10_ShutdownAsStated == [][server_running = 0 => nconn' = nconn]_vars

\* C11 (as stated): the handling of a connection always terminates, every
\* recv and every send being bounded by the idle timeout: the handler is
\* never inside a call that only the peer can end.  Violated: the send() of
\* the file bytes of a 200 has no timeout, and a peer that does not read
\* keeps the handler, and with it the accept loop, in it.
C11_HandlingTerminatesAsStated == ~(mainpc = "request" /\ pc = "send_blocked")

\* The header lines C12 asks of every response.
RequiredHeaders ==
    { "Connection: close", "Access-Control-Allow-Origin: *", "Access-Control-Allow-Methods",
      "Access-Control-Allow-Headers", "Access-Control-Expose-Headers",
      "Access-Control-Max-Age" }

\* C12 (as stated): every response a program of the repository writes, at
\* every site and for every status, carries Connection: close and the five
\* CORS headers.  Violated by a.c, whose CORS_HEADERS has no
\* Access-Control-Expose-Headers.
C12_ResponseHeadersAsStated ==
    (fn.op = "respond" /\ fn.done) => RequiredHeaders \subseteq fn.res.headers

C14_CacheDescriptor ==
    (fn.op = "cache_descriptor" /\ fn.done)
        => /\ (fn.arg[1] = fn.arg[2] => fn.res[1] = fn.res[2])
           /\ (fn.arg[1] # fn.arg[2] => fn.res[1].etag # fn.res[2].etag)

\* Two file states whose hexadecimal digits run together to the same
\* string, (1, 17) and (17, 1), have been given different ETags.
C14_Witness ==
    /\ fn.op = "cache_descriptor" /\ fn.done /\ fn.impl = "utils.c"
    /\ fn.arg[1] = [mtime |-> 1, len |-> MaxStat] /\ fn.arg[2] = [mtime |-> MaxStat, len |-> 1]
    /\ fn.res[1].etag # fn.res[2].etag

\* The extension C15 expects for the upload in hand: that of a known
\* Content-Type; without one, that of the signature of a body of at least
\* MagicLen bytes; failing both, .bin.
ExpectedExtension ==
    CASE req.ctype = "image/jpeg" -> B(<<".", "j", "p", "g">>)
      [] req.ctype = "image/png" -> B(<<".", "p", "n", "g">>)
      [] req.ctype \notin {"image/jpeg", "image/png"} /\ req.data = 3 /\ body_len >= MagicLen ->
            B(<<".", "j", "p", "g">>)
      [] OTHER -> B(<<".", "b", "i", "n">>)

C16_NotFound ==
    (/\ Returned /\ mainpc = "request"
     /\ req.method \in {"GET", "HEAD"} /\ request_line_ok(req) /\ TerminatorReceived
     /\ ~req.cl.has
     /\ filename.has /\ valid_filename(filename.text)
     /\ ~Exists(fs0, build_serve_path(filename.text)))
        => Answered(404, HtmlBody) /\ fs = fs0

\* A HEAD on /retrieve for the valid name ab, which the serve root does
\* not hold, has been answered 404.
C16_Witness ==
    /\ Returned /\ mainpc = "request" /\ variant = "cpp"
    /\ req.method = "HEAD" /\ req.path_only = "/retrieve"
    /\ filename = Some(B(<<"a", "b">>))
    /\ ~Exists(fs0, build_serve_path(filename.text))
    /\ Answered(404, HtmlBody) /\ fs = fs0

\* The status codes of the responses the server writes.
StatusCodes == {200, 204, 304, 400, 404, 413, 500, 501}

\* C17 (one response): a connection is never sent more than one response,
\* and the status of the one it is sent is 200, 204, 304, 400, 404, 413,
\* 500 or 501.
C17_OneResponse ==
    /\ Len(resp) <= 1
    /\ \A i \in 1..Len(resp) : resp[i].status \in StatusCodes

\* An upload that had begun to write and then failed has been answered
\* 500, once.
C17_Witness ==
    /\ Returned /\ mainpc = "request"
    /\ req.method = "POST" /\ built # {} /\ body_len > 0
    /\ Len(resp) = 1 /\ resp[1].status = 500

\* process_request has returned from a recv() that gave no bytes: in the
\* header loop, before the terminator and with room left in the buffer, or
\* in the body loop, short of the declared length.
RecvFailed ==
    /\ mainpc = "request" /\ pc = "done"
    /\ \/ ~TerminatorReceived /\ received < BUFFER_SIZE - 1
       \/ TerminatorReceived /\ body_len < content_length

\* C18 (failed receive): when a recv() returns 0, fails or times out
\* before the request is complete, the connection is sent nothing, no path
\* is built and no file is created or changed, and the next step of the
\* accept loop closes the connection's descriptor.
C18_RecvFailure ==
    [][ /\ RecvFailed' => (resp' = <<>> /\ built' = {} /\ fs' = fs0')
        /\ (RecvFailed /\ mainpc' # mainpc) => (mainpc' = "loop" /\ open_fds' = {}) ]_vars

\* The client went silent after one of the two body bytes it declared:
\* process_request has returned and nothing was sent.
C18_Witness ==
    /\ RecvFailed
    /\ TerminatorReceived /\ body_len > 0 /\ content_length = 2
    /\ resp = <<>> /\ fs = fs0

\* C19 (one connection at a time): the server never holds more than one
\* connection; while it waits in accept() no connection is open and no
\* handler is at work, and the connection open while a request is handled
\* is the one accepted last.
C19_OneAtATime ==
    /\ Cardinality(open_fds) <= 1
    /\ mainpc \in {"loop", "accept"} => (open_fds = {} /\ pc = "idle")
    /\ mainpc = "request" => open_fds = {nconn}

\* The second connection is being handled: the first is closed.
C19_Witness == mainpc = "request" /\ nconn = 2 /\ open_fds = {2} /\ pc = "dispatch"

\* The value of a header: the text up to the end of its line.
HeaderValue(text) ==
    LET ends == {i \in 1..Len(text) : text[i] = Ord["\r"]}
    IN  IF ends = {} THEN text
        ELSE SubSeq(text, 1, (CHOOSE i \in ends : \A k \in ends : i <= k) - 1)

\* The header is present and its value contains the token.
ValueContains(field, token) == field.has /\ Find(HeaderValue(field.text), token) > 0

\* C20 (as stated): a GET of an existing file answered 200 or 304 is
\* answered 304 exactly when the value of If-None-Match contains the
\* file's ETag or the value of If-Modified-Since contains its
\* Last-Modified; text elsewhere in the request does not count.  Violated:
\* the search runs from the header name to the end of the request, so an
\* ETag in a later header line makes a 304.
C20_ConditionalAsStated ==
    LET p == build_serve_path(filename.text)
    IN  (/\ Returned /\ mainpc = "request" /\ req.method = "GET"
         /\ filename.has /\ valid_filename(filename.text) /\ Exists(fs0, p)
         /\ Len(resp) = 1 /\ resp[1].status \in {200, 304})
            => (resp[1].status = 304
                   <=> \/ ValueContains(req.inm, generate_etag(variant, fs0[p]))
                       \/ ValueContains(req.ims, format_http_date(fs0[p].mtime)))

\* C21 (as stated): the declared body length comes only from a
\* Content-Length inside the header block: a request whose header block
\* has none declares nothing, so it is not answered 413 and no body length
\* is set for it.  Violated: the search runs over everything received with
\* the header block, and finds the text in the body bytes.
C21_LengthFromHeaderAsStated ==
    (TerminatorReceived /\ req.cl_in_body /\ pc # "parse")
        => (content_length = 0 /\ \A i \in 1..Len(resp) : resp[i].status # 413)

\* The header block of the request has no Content-Length, or one that
\* declares 0.
NoBodyDeclared(r) ==
    \/ ~r.cl.has
    \/ r.cl_in_body
    \/ r.cl.text = <<Ord[" "]>> \o Digits(0, 10)

\* C22 (as stated): an upload whose header block declares no body, or a
\* body of 0 bytes, is past the framer without a recv for a body and with
\* body_len = 0, whatever followed the terminator: it is not read for, not
\* answered 413 and does not end the process.  Violated through C21: a
\* body that holds the text "Content-Length:" is taken for a declaration.
C22_EmptyBodyAsStated ==
    (/\ TerminatorReceived /\ pc # "parse"
     /\ IsUpload(req) /\ NoBodyDeclared(req))
        => /\ pc # "recv_body" /\ body_len = 0 /\ content_length = 0
           /\ mainpc # "aborted"
           /\ \A i \in 1..Len(resp) : resp[i].status # 413

\* C23 (as stated): a GET, HEAD or POST with a well-formed request line
\* and a valid version whose Content-Length header declares more than the
\* maximum is, once parsed, answered 413 and nothing else, with no body
\* byte collected and no recv for one, whatever its path and name.
\* Violated: main.c checks the path, the name parameter and the file name
\* first and answers 400 for them.
C23_TooLargeFirstAsStated ==
    (/\ mainpc = "request" /\ TerminatorReceived /\ pc # "parse"
     /\ request_line_ok(req) /\ req.method \in {"GET", "HEAD", "POST"}
     /\ DeclaresTooMuch(req) /\ Len(req.cl.text) < 20)
        => (pc = "done" /\ Answered(413, HtmlBody) /\ body_len = 0)

\* The paths a build accepts for some method.
AcceptedPaths == IF variant = "c" THEN {"/"} ELSE {"/upload", "/retrieve"}

\* The request in hand has a complete header block, a request line that
\* parses with a supported version, a method other than OPTIONS and no
\* Content-Length, and process_request has returned from it.
Routed ==
    /\ Returned /\ mainpc = "request" /\ TerminatorReceived
    /\ request_line_ok(req) /\ req.method # "OPTIONS"
    /\ ~req.cl.has

\* C24 (as stated): a request on a path the build accepts for no method is
\* answered 400, whatever its method.  Violated: main.cpp looks at the
\* method first and answers 501 for one it does not implement.
C24_InvalidPathAsStated ==
    (Routed /\ req.path_only \notin AcceptedPaths) => Answered(400, HtmlBody)

\* C25 (as stated): a request on an accepted path whose method is none of
\* GET, HEAD, POST and OPTIONS is answered 501, with or without a name
\* parameter, and the file system is as it was.  Violated: main.c asks for
\* the name parameter and validates it before it looks at the method, and
\* answers 400.
C25_NotImplementedAsStated ==
    (/\ Routed /\ req.path_only \in AcceptedPaths
     /\ req.method \notin {"GET", "HEAD", "POST", "OPTIONS"})
        => (Answered(501, HtmlBody) /\ fs = fs0)

\* handle_post has begun to store the upload in hand.
Storing == mainpc = "request" /\ req.method = "POST" /\ filename.has /\ built # {}

\* C26 (as stated): a write, flush or close of the temporary file that
\* fails ends the upload with 500, the temporary file deleted and nothing
\* published: the handler gets to the rename only with the whole body in
\* the temporary file, and an upload that ended with 500 has left no
\* temporary file and the destination as it was.  Violated: the C++
\* handler does not notice a failed flush at close and renames the
\* truncated file.
C26_WriteFailureAsStated ==
    Storing =>
        /\ pc = "post_rename" => Content(fs, tmp) = [data |-> req.data, len |-> body_len]
        /\ (pc = "done" /\ Len(resp) = 1 /\ resp[1].status = 500)
              => (~Exists(fs, tmp) /\ Content(fs, dest) = dest_before)

C28_FireAndForget ==
    [][ (pc = "post_finish" /\ last_dot(filename.text) # 0 /\ pc' # pc)
           => /\ pc' = "done" /\ mainpc' = mainpc
              /\ \A j \in {{}, jobs' \ jobs} :
                    resp' = Append(resp, upload_response(variant, filename.text, j)) ]_vars

\* An upload has been answered 200 and its handler has returned although
\* no post-processor could be started for it.
C28_Witness ==
    /\ Returned /\ Storing
    /\ Len(resp) = 1 /\ resp[1].status = 200
    /\ jobs = {}

\* C29 (as stated, for the build of main.c): no two uploads are written to
\* the same temporary path or the same destination path: an upload whose
\* temporary file has been written never has the name of an earlier upload.
C29_UniqueNamesAsStated ==
    (/\ variant = "c"
     /\ mainpc = "request" /\ pc \in {"post_close", "post_rename", "post_finish"}
     /\ filename.has)
        => filename.text \notin DOMAIN uploaded

\* What the caller of a build reads of the decoded bytes: a C string for
\* utils.c, the whole std::string for utils.cpp.
DecodedText(impl, bytes) == IF impl = "utils.c" THEN CStr(bytes) ELSE bytes

\* get_query_param as the specification describes it: the decoded text
\* after the first "name=" up to the next space, '&', CR, LF or the end;
\* absent when the key is not found, when the decoded value is empty or
\* when the value with its terminator does not fit the destination.
StatedParam(impl, query) ==
    LET pos   == Find(query, NameKey \o <<61>>)
        start == pos + Len(NameKey) + 1
        value == DecodedText(impl, url_decode(SubSeq(query, start, ValueEnd(query, start) - 1)))
    IN  IF \/ pos = 0
           \/ value = <<>>
           \/ impl = "utils.c" /\ Len(value) >= MAX_FILENAME_LEN + 1
           THEN [ok |-> FALSE, value |-> <<>>]
           ELSE [ok |-> TRUE, value |-> value]

\* C30 (as stated): every call of get_query_param returns, with the result
\* the specification describes.
C30_QueryParamAsStated ==
    (fn.op = "get_query_param" /\ fn.done)
        => /\ ~fn.res.crashed
           /\ fn.res.ret = StatedParam(fn.impl, fn.arg)

\* The number of '.' in a name.
DotCount(name) == Cardinality({i \in 1..Len(name) : name[i] = Ord["."]})

\* C31 (inclusion of the filename policies): a name the validator of a.c
\* accepts is accepted by the validators of utils.c and utils.cpp, and two
\* validators disagree on a name only when it has more than one '.'.
C31_PolicyInclusion ==
    (fn.op = "valid_filename" /\ fn.done)
        => \A other \in Impls :
              /\ (fn.impl = "a.c" /\ fn.res) => valid_filename_of(other, fn.arg)
              /\ (fn.res # valid_filename_of(other, fn.arg)) => DotCount(fn.arg) > 1

\* The validator of a.c has refused "a.a.a", which utils.c accepts.
C31_Witness ==
    /\ fn.op = "valid_filename" /\ fn.done
    /\ fn.impl = "a.c" /\ ~fn.res
    /\ fn.arg = B(<<"a", ".", "a", ".", "a">>)
    /\ valid_filename_of("utils.c", fn.arg)

\* The files of the save root.
SaveFiles(f) == [p \in {q \in DOMAIN f : q.dir = SAVE_DIR} |-> f[p]]

\* C32 (as stated): an upload answered with a 4xx or 5xx status has left
\* the save root as it was when the connection was accepted, and a
\* post-processor runs on its destination only if an earlier upload of
\* the name was answered 200.  Violated: handle_post looks for the
\* extension after the rename, so a name without '.' is published and
\* then answered 400.
C32_ErrorLeavesSaveRootAsStated ==
    (Returned /\ Storing /\ Len(resp) = 1 /\ resp[1].status >= 400)
        => /\ SaveFiles(fs) = SaveFiles(fs0)
           /\ \A j \in jobs : j.input = dest => filename.text \in DOMAIN uploaded

\* C33 (as stated): when the handler of an upload of name N has returned,
\* every path of the save root other than N's holds what it held when the
\* connection was accepted.  Violated: the temporary file is N followed
\* by ".tmp", itself a valid name; opening it truncates the stored file of
\* that name, and the rename or the unlink that follows removes it.
C33_FrameAsStated ==
    (Returned /\ Storing)
        => \A p \in DOMAIN SaveFiles(fs) \cup DOMAIN SaveFiles(fs0) :
              p # dest => Content(fs, p) = Content(fs0, p)

\* C34 (as stated, for the build of main.c): while a child has not yet
\* read its input path, the path holds what the child's upload published,
\* and no two children run the post-processor on the same output path at
\* the same time.  Violated: the server takes the next connection while
\* the child sleeps, and an upload of the same name replaces the file.
C34_ChildInputAsStated ==
    variant = "c" =>
        /\ \A c \in children :
              c.phase = "sleeping" => Content(fs, c.input) = c.published
        /\ \A c1 \in children : \A c2 \in children :
              (c1.pid # c2.pid /\ c1.phase = "running" /\ c2.phase = "running")
                  => c1.output # c2.output

\* C34 (as stated, second half alone): no two children of the C build run
\* the post-processor on the same output path at the same time.
C34_ChildOutputAsStated ==
    variant = "c" =>
        \A c1 \in children : \A c2 \in children :
            (c1.pid # c2.pid /\ c1.phase = "running" /\ c2.phase = "running")
                => c1.output # c2.output

\* The bytes of a file version.
Bytes(file) == [data |-> file.data, len |-> file.len]

\* C35 (as stated): when the bytes of a file changed between two
\* retrievals, the second one, made with the ETag of the first in
\* If-None-Match, is not answered 304.  Violated: the ETag is made of the
\* modification time in seconds and the size, which a change of the bytes
\* may leave as they were.
C35_NoStale304AsStated ==
    (fn.op = "revalidate" /\ fn.done /\ Bytes(fn.arg[1]) # Bytes(fn.arg[2]))
        => \A i \in 1..Len(fn.res) : fn.res[i].status # 304

\* C36 (as stated): when the loop that sends a file has ended and no send
\* reported an error, the socket has taken every byte of the file, in
\* order, as many as Content-Length (the size of the file) announced.
\* Violated: the bytes a send call does not take are never offered again.
C36_BodyCompleteAsStated ==
    (fn.op = "send_file" /\ fn.done /\ ~fn.res.error)
        => fn.res.wire = [i \in 1..fn.arg.len |-> i]

\* C37 (as stated): a connection the server has accepted and closed is
\* held open by no process.  Violated: the child forked for an upload
\* has a copy of the client's descriptor, which it never closes before
\* it exits.
C37_FullyClosedAsStated ==
    \A fd \in 1..nconn :
        fd \notin open_fds => \A c \in children : fd \notin c.fds

\* The child forked for connection pid has exited and its parent has not
\* waited for it.
Zombie(pid) == \E c \in children : c.pid = pid /\ c.phase = "exited"

\* C38 (as stated): every child that has exited is eventually reaped.
\* Violated: the server never waits for a child and leaves SIGCHLD at its
\* default, so an exited child stays in the process table for as long as
\* the server runs.
C38_ReapedAsStated == \A pid \in 1..MaxConns : Zombie(pid) ~> ~Zombie(pid)

\* C38 (as stated, the count): the exited and unreaped children never
\* number more than one, however many uploads were handled.
C38_ZombiesBoundedAsStated ==
    Cardinality({c \in children : c.phase = "exited"}) <= 1

\* C39 (as stated): every write of get_query_param of utils.c stays inside
\* the buffer it goes to: encoded has MAX_FILENAME_LEN bytes, and the
\* caller's value MAX_FILENAME_LEN + 1.  Violated: an encoded value of
\* MAX_FILENAME_LEN bytes passes the test len >= value_size and its
\* terminator is written to encoded[MAX_FILENAME_LEN].
C39_WritesInBoundsAsStated ==
    (fn.op = "get_query_param" /\ fn.done)
        => /\ fn.res.writes.encoded < MAX_FILENAME_LEN
           /\ fn.res.writes.value < MAX_FILENAME_LEN + 1

\* C39 (as stated, the caller's buffer alone): no write of url_decode
\* goes past value[MAX_FILENAME_LEN].
C39_ValueInBounds ==
    (fn.op = "get_query_param" /\ fn.done) => fn.res.writes.value < MAX_FILENAME_LEN + 1

\* C40 (as stated): detect_extension_from_magic reads no offset at or
\* past body.size(), and a body of fewer than 8 bytes yields ".bin".
C40_ReadsBelowSizeAsStated ==
    (fn.op = "detect_extension_from_magic" /\ fn.done)
        => /\ \A i \in fn.res.reads : i < Len(fn.arg)
           /\ Len(fn.arg) < MagicLen => fn.res.ext = B(<<".", "b", "i", "n">>)

\* C40 amended: detect_extension_from_magic reads no offset past
\* body.size(); a body of fewer than 8 bytes yields ".bin" with no read at
\* all; and the offset body.size() itself, where the string's terminator
\* is, is read only for a body of 8 to 11 bytes that begins with "RIFF" and
\* goes on as "WEBP" from offset 8 as far as it goes, and the answer is
\* then ".bin".
C40_ReadsAmended ==
    (fn.op = "detect_extension_from_magic" /\ fn.done)
        => /\ \A i \in fn.res.reads : i <= Len(fn.arg)
           /\ Len(fn.arg) < MagicLen
                 => (fn.res.ext = B(<<".", "b", "i", "n">>) /\ fn.res.reads = {})
           /\ Len(fn.arg) \in fn.res.reads
                 => /\ Len(fn.arg) \in 8..11
                    /\ fn.arg = SubSeq(RiffWebp, 1, Len(fn.arg))
                    /\ fn.res.ext = B(<<".", "b", "i", "n">>)

\* The eight bytes "RIFFxxxx" were examined: offset 8, the terminator, was
\* read, and the answer was ".bin".
C40_Witness ==
    /\ fn.op = "detect_extension_from_magic" /\ fn.done
    /\ fn.arg = SubSeq(RiffWebp, 1, 8)
    /\ 8 \in fn.res.reads
    /\ fn.res.ext = B(<<".", "b", "i", "n">>)

=============================================================================
